---- MODULE Spec2Model ----
(***************************************************************************)
(* State-machine model of the semantic-memory server:                      *)
(*   - MemoryJanitor        (services/spot-mcp-server/src/memory_janitor.py)*)
(*   - FileHashTracker      (.../mcp_server_qdrant/incremental.py)          *)
(*   - index_codebase       (src/mcp_server_qdrant/mcp_server.py)           *)
(*   - QdrantConnector      (src/mcp_server_qdrant/qdrant.py)               *)
(* The vector store is the black box of spec section 6: a collection is a   *)
(* map from point id to {document, metadata, vector}; scroll returns the    *)
(* points in id order; delete of an absent id succeeds and changes nothing; *)
(* upsert replaces the whole point.                                         *)
(***************************************************************************)
EXTENDS Integers, Sequences, FiniteSets, TLC

(***************************************************************************)
(* Bounds of the model                                                     *)
(***************************************************************************)
MaxMem == 3        \* memories in the collection when the janitor starts
MaxCycles == 2     \* run_maintenance calls in one behaviour
MaxFaults == 1     \* storage calls that fail in one behaviour (SpecFail)
MaxClock == 4      \* FileHashTracker calls in one behaviour (SpecTracker)
MaxRuns == 2       \* index_codebase calls in one behaviour (SpecIndex)
MaxFiles == 2      \* files in one index_codebase call
MaxConnCalls == 3  \* QdrantConnector calls in one behaviour (SpecConn)
MaxDocs == 3       \* candidates handed to the reranker in one call (SpecRerank)
MaxValues == 2     \* entries of the values mapping of make_filter (SpecFilter)
MaxNodes == 3       \* statements of a generated Python source (SpecChunker)
MaxEmbeds == 2     \* embed_documents calls in one behaviour (SpecSparse)
MaxTexts == 2      \* texts of one embed_documents call

(***************************************************************************)
(* Program constants                                                       *)
(***************************************************************************)
Day == 86400
HalfDay == Day \div 2
SimilarityThresholdPct == 90     \* similarity_threshold = 0.90
TopicThresholdPct == 75          \* 0.75, "same topic threshold"
StaleThresholdDays == 365
MinAccessCount == 1
MinContentLen == 10
\* the clock: datetime.now(utc).timestamp(), the same value during a behaviour
Now == 20763 * Day

VARIABLES
  \* ---- the collection the janitor maintains
  store,        \* point id -> [document, metadata, vector]
  \* ---- MemoryJanitor
  pc,           \* position of run_maintenance
  cycles,       \* run_maintenance calls started so far
  stats,        \* self.stats
  report,       \* value returned by the last run_maintenance, or NoReport
  faultBudget,  \* storage-call failures the environment may still inject
  faults,       \* storage calls that failed during the current cycle
  faultKind,    \* the storage call that failed last in the current cycle
  \* ---- history of the current cycle (not program state)
  snap,         \* the collection when the last executed phase started
  lastPhase,    \* the last executed phase
  delLog,       \* [id, reason] of every successful _delete_memory call
  keepers,      \* ids chosen as keeper by _merge_memories in this cycle
  localMeta,    \* in-memory Entry.metadata when deduplicate_memories returned
  dedupSnap,    \* the collection when deduplicate_memories started
  cycleStart,   \* the collection when the current cycle started
  statsStart,   \* self.stats when the current cycle started
  afterClean    \* the current cycle started right after a cycle that returned a report

janitorVars == <<store, pc, cycles, stats, report, faultBudget, faults, faultKind,
                 snap, lastPhase, delLog, keepers, localMeta, dedupSnap, cycleStart,
                 statsStart, afterClean>>

VARIABLES
  \* ---- FileHashTracker (one per server instance)
  file_hashes,  \* self.file_hashes: path -> hash
  last_check,   \* self.last_check: path -> time
  clock,        \* time.time()
  \* ---- history of the tracker calls (not program state)
  trackerLast,  \* the last call: operation, arguments, result, hashes before it
  trackerPrev   \* the call before it

trackerVars == <<file_hashes, last_check, clock, trackerLast, trackerPrev>>

VARIABLES
  \* ---- index_codebase (mcp_server.py), one call at a time
  idxPc,          \* position of the call
  runs,           \* calls started so far
  files,          \* the files argument: sequence of [path, content], dict order
  results,        \* results of asyncio.gather for the current batch
  batchStart,     \* batch_start
  cursor,         \* [file, chunk]: the next chunk of the batch to store
  seen_hashes,    \* seen_hashes of the run
  indexed_count,
  chunk_count,
  points,         \* the codebase collection: one record per stored point
  idxReturn,      \* what the last completed call returned
  \* ---- history (not program state)
  pointsAtStart,  \* Len(points) when the current call started
  prevFiles       \* the files of the previous call, when it completed

indexVars == <<idxPc, runs, files, results, batchStart, cursor, seen_hashes,
               indexed_count, chunk_count, points, idxReturn, pointsAtStart, prevFiles>>

VARIABLES
  \* ---- QdrantConnector and the collection behind it (qdrant.py)
  collExists,   \* the collection exists in the store
  collPoints,   \* its points, in upsert order
  createCalls,  \* create_collection calls that succeeded
  embedCalls,   \* calls of the embedding provider
  task,         \* per caller: the call in progress
  connCalls     \* calls started so far

connVars == <<collExists, collPoints, createCalls, embedCalls, task, connCalls>>

VARIABLES
  \* ---- the stateless library functions (reranker, filters, chunker, settings)
  lastCall      \* the last call: function, arguments, result

libVars == <<lastCall>>

VARIABLES
  \* ---- BM25SparseEmbedder (sparse_embedder.py), one instance
  vocab,           \* self.vocab: term -> index
  doc_count,       \* self.doc_count
  avg_doc_length,  \* self.avg_doc_length, as the fraction [num, den]
  df,              \* self.df: term -> document frequency
  sparseCalls,     \* embed_documents calls so far
  \* ---- history (not program state)
  sparseLast       \* the last embed_documents call: texts and returned vectors

sparseVars == <<vocab, doc_count, avg_doc_length, df, sparseCalls, sparseLast>>

VARIABLES
  \* ---- QdrantMCPServer (mcp_server.py)
  qdrant_settings  \* self.qdrant_settings: [read_only]

serverVars == <<qdrant_settings>>

(***************************************************************************)
(* Python dict helpers                                                     *)
(***************************************************************************)
EmptyMeta == [k \in {} |-> 0]

\* dict.get(key, default)
Get(m, k, d) == IF k \in DOMAIN m THEN m[k] ELSE d

\* d[key] = value on a copy
Put(m, k, v) == [x \in DOMAIN m \cup {k} |-> IF x = k THEN v ELSE m[x]]

\* truthiness of a dict (None and {} are both falsy and both modelled EmptyMeta)
Truthy(m) == DOMAIN m # {}

Max(a, b) == IF a >= b THEN a ELSE b
Min(a, b) == IF a <= b THEN a ELSE b
Abs(a) == IF a >= 0 THEN a ELSE 0 - a

(***************************************************************************)
(* Strings that the code transforms are sequences of characters.           *)
(***************************************************************************)
LowerCase == {"a", "b", "c", "d", "e", "f", "g", "h", "i", "j", "k", "l", "m",
              "n", "o", "p", "q", "r", "s", "t", "u", "v", "w", "x", "y", "z"}
Digits == {"0", "1", "2", "3", "4", "5", "6", "7", "8", "9"}

\* str.lower() on one character (the upper-case letters the inputs use)
Lower(c) ==
  CASE c = "A" -> "a" [] c = "B" -> "b" [] c = "G" -> "g" [] c = "J" -> "j"
    [] c = "P" -> "p" [] c = "S" -> "s" [] c = "T" -> "t" [] c = "Y" -> "y"
    [] OTHER -> c

\* \w of the regular expression, after lower()
IsWordChar(c) == c \in LowerCase \cup Digits \cup {"_"}

RECURSIVE CollapseHyphens(_)
CollapseHyphens(s) ==
  IF Len(s) < 2 THEN s
  ELSE IF s[1] = "-" /\ s[2] = "-" THEN CollapseHyphens(Tail(s))
  ELSE <<s[1]>> \o CollapseHyphens(Tail(s))

RECURSIVE StripLeft(_)
StripLeft(s) ==
  IF s # <<>> /\ s[1] = "-" THEN StripLeft(Tail(s)) ELSE s

RECURSIVE StripRight(_)
StripRight(s) ==
  IF s # <<>> /\ s[Len(s)] = "-" THEN StripRight(SubSeq(s, 1, Len(s) - 1)) ELSE s

\* MemoryJanitor._normalize_workspace_name
NormalizeWorkspaceName(name) ==
  LET lowered == [i \in 1..Len(name) |-> Lower(name[i])]
      replaced == [i \in 1..Len(name) |->
                     IF IsWordChar(lowered[i]) \/ lowered[i] = "-"
                     THEN lowered[i] ELSE "-"]
  IN StripRight(StripLeft(CollapseHyphens(replaced)))

\* known_projects of _infer_workspace, in list order
KnownProjects ==
  << <<"e", "b", "o", "o", "t", "-", "a", "p", "p", "-", "c", "o", "d", "e">>,
     <<"e", "b", "o", "o", "t", "-", "w", "e", "b", "a", "p", "p", "-", "b", "a", "c", "k", "e", "n", "d">>,
     <<"e", "b", "o", "o", "t", "-", "w", "e", "b", "a", "p", "p", "-", "f", "r", "o", "n", "t", "e", "n", "d">>,
     <<"e", "b", "o", "o", "t", "-", "m", "o", "r", "t", "i", "c", "i", "a", "n">>,
     <<"m", "e", "t", "a", "-", "g", "r", "a", "n", "i", "t", "e", "n", "e", "t">>,
     <<"m", "a", "r", "c", "o", "t", "t", "e", "-", "d", "e", "v">>,
     <<"s", "p", "o", "t", "-", "m", "c", "p", "-", "s", "e", "r", "v", "e", "r">> >>

GlobalWs == <<"g", "l", "o", "b", "a", "l">>
WsAlpha == <<"a", "l", "p", "h", "a">>
WsAlphaRaw == <<"A", "l", "p", "h", "a", " ", "!">>
WsBeta == <<"b", "e", "t", "a">>
ProjAlpha == <<"A", "l", "p", "h", "a">>

(***************************************************************************)
(* Document and tag texts.  The code only takes len(content.strip()) and   *)
(* searches the lower-cased text for the known project names; both are     *)
(* tabulated for the texts the model stores.                               *)
(***************************************************************************)
DocDecision == "Decision: use PostgreSQL for storage"
DocPattern == "Pattern: retry with backoff"
DocNote == "Spot-MCP-Server and marcotte-dev share the compose file"
DocShort == "  use it "
DocBlank == "   "
TagsDev == "infra,Marcotte-Dev"
\* the searchable content index_codebase builds for the chunks of f and g
DocChunkF == "# File: a.py\n# Function: f\n\ndef f():\n    return 1"
DocChunkG == "# File: a.py\n# Function: g\n\ndef g():\n    return 2"

\* len(content.strip())
StrippedLen(text) ==
  CASE text = DocDecision -> 36
    [] text = DocPattern -> 27
    [] text = DocNote -> 55
    [] text = DocShort -> 6
    [] text = DocBlank -> 0
    [] text \in {DocChunkF, DocChunkG} -> 49
    [] OTHER -> 0

\* {i : known_projects[i] in text.lower()}
Mentions(text) ==
  CASE text = DocNote -> {6, 7}
    [] text = TagsDev -> {6}
    [] OTHER -> {}

\* first project of the list found in the text, 0 when none
FirstMention(text) ==
  IF Mentions(text) = {} THEN 0
  ELSE CHOOSE i \in Mentions(text) : \A j \in Mentions(text) : i <= j

\* MemoryJanitor._infer_workspace: index into KnownProjects, 0 for None
InferWorkspace(content, meta) ==
  LET tags == Get(meta, "tags", "")
  IN IF FirstMention(tags) # 0 THEN FirstMention(tags) ELSE FirstMention(content)

(***************************************************************************)
(* Vectors                                                                 *)
(***************************************************************************)
NoVector == <<>>
VectorName == "fast-bge-large-en-v1.5"

\* MemoryJanitor._extract_vector: a named-vector dict -> its first array
ExtractVector(vd) == IF vd = NoVector THEN NoVector ELSE vd.values

\* MemoryJanitor._wrap_vector
WrapVector(arr) ==
  IF arr = NoVector THEN NoVector ELSE [name |-> VectorName, values |-> arr]

Dot(a, b) == a[1] * b[1] + a[2] * b[2] + a[3] * b[3]

\* _calculate_similarity(mem1, mem2) >= pct / 100, in exact arithmetic:
\* 0.0 for a missing vector or a zero norm, else dot / (norm1 * norm2)
SimilarityAtLeast(v1, v2, pct) ==
  IF v1 = NoVector \/ v2 = NoVector THEN FALSE
  ELSE IF Dot(v1, v1) = 0 \/ Dot(v2, v2) = 0 THEN FALSE
  ELSE /\ Dot(v1, v2) > 0
       /\ Dot(v1, v2) * Dot(v1, v2) * 10000 >= pct * pct * Dot(v1, v1) * Dot(v2, v2)

(***************************************************************************)
(* The collection as the janitor reads it                                  *)
(***************************************************************************)
RECURSIVE SortedIds(_)
SortedIds(S) ==
  IF S = {} THEN <<>>
  ELSE LET m == CHOOSE x \in S : \A y \in S : x <= y
       IN <<m>> \o SortedIds(S \ {m})

RECURSIVE Flatten(_)
Flatten(ss) == IF ss = <<>> THEN <<>> ELSE ss[1] \o Flatten(Tail(ss))

\* MemoryJanitor._get_all_memories on an existing collection: one Entry per
\* point, in scroll order, with id and the extracted vector attached
GetAllMemories(st) ==
  LET ids == SortedIds(DOMAIN st)
  IN [i \in 1..Len(ids) |->
        [id |-> ids[i],
         content |-> st[ids[i]].document,
         metadata |-> st[ids[i]].metadata,
         vector |-> ExtractVector(st[ids[i]].vector)]]

\* `memory.metadata or {}`
MetaOf(m) == m.metadata

\* `mem.metadata.get("timestamp", 0) if mem.metadata else 0`
TimestampOf(m) == IF Truthy(m.metadata) THEN Get(m.metadata, "timestamp", 0) ELSE 0

(***************************************************************************)
(* Storage operations a phase issues, in program order.  kind is           *)
(*   "update": _update_memory_metadata (retrieve, then upsert; both inside *)
(*             a try/except that logs and returns)                         *)
(*   "delete": _delete_memory (one delete call)                            *)
(*   "put":    the upsert of update_health_scores                          *)
(* stat is the counter the caller increments when the operation returns.   *)
(***************************************************************************)
UpdateOp(m, meta, stat) ==
  [kind |-> "update", id |-> m.id, metadata |-> meta, content |-> m.content,
   vector |-> m.vector, reason |-> "", stat |-> stat]

DeleteOp(m, reason, stat) ==
  [kind |-> "delete", id |-> m.id, metadata |-> m.metadata, content |-> m.content,
   vector |-> m.vector, reason |-> reason, stat |-> stat]

PutOp(m, meta, stat) ==
  [kind |-> "put", id |-> m.id, metadata |-> meta, content |-> m.content,
   vector |-> m.vector, reason |-> "", stat |-> stat]

\* ---- Phase 0: fix_workspace_metadata, the body of the loop for one memory
FixWorkspaceOne(m) ==
  LET meta == MetaOf(m)
  IN IF "project" \in DOMAIN meta /\ "workspace_name" \notin DOMAIN meta
     THEN <<UpdateOp(m, Put(meta, "workspace_name",
                            NormalizeWorkspaceName(meta["project"])),
                     "workspace_fixed")>>
     ELSE IF "workspace_name" \in DOMAIN meta
     THEN IF meta["workspace_name"] # NormalizeWorkspaceName(meta["workspace_name"])
          THEN <<UpdateOp(m, Put(meta, "workspace_name",
                                 NormalizeWorkspaceName(meta["workspace_name"])),
                          "workspace_fixed")>>
          ELSE <<>>
     ELSE IF Get(meta, "category", "") \in {"decision", "pattern"}
     THEN IF InferWorkspace(m.content, meta) # 0
          THEN <<UpdateOp(m, Put(meta, "workspace_name",
                                 KnownProjects[InferWorkspace(m.content, meta)]),
                          "workspace_fixed")>>
          ELSE <<>>
     ELSE <<>>

FixWorkspaceOps(mems) == Flatten([i \in 1..Len(mems) |-> FixWorkspaceOne(mems[i])])

\* ---- Phase 0.5: fix_category_metadata
ValidCategories ==
  {"decision", "pattern", "memory", "architecture", "error", "lesson", "codebase",
   "other"}

FixCategoryOne(m) ==
  LET meta == MetaOf(m)
      category == Get(meta, "category", "memory")
  IN IF StrippedLen(m.content) = 0
     THEN <<DeleteOp(m, "empty content", "empty_deleted")>>
     ELSE IF StrippedLen(m.content) < MinContentLen
     THEN <<DeleteOp(m, "suspiciously short content", "short_deleted")>>
     ELSE IF category \notin ValidCategories
     THEN <<UpdateOp(m, Put(meta, "category", "memory"), "category_fixed")>>
     ELSE <<>>

FixCategoryOps(mems) == Flatten([i \in 1..Len(mems) |-> FixCategoryOne(mems[i])])

\* ---- Phase 1: deduplicate_memories
\* key = (meta.get("category", "memory"), meta.get("workspace_name", ""))
GroupKey(m) ==
  <<Get(MetaOf(m), "category", "memory"), Get(MetaOf(m), "workspace_name", <<>>)>>

\* the keys of a defaultdict filled in list order: first appearance order
RECURSIVE KeysInOrder(_, _)
KeysInOrder(ks, seen) ==
  IF ks = <<>> THEN <<>>
  ELSE IF ks[1] \in seen THEN KeysInOrder(Tail(ks), seen)
  ELSE <<ks[1]>> \o KeysInOrder(Tail(ks), seen \cup {ks[1]})

GroupsBy(mems, Key(_)) ==
  LET keys == KeysInOrder([i \in 1..Len(mems) |-> Key(mems[i])], {})
  IN [k \in 1..Len(keys) |-> SelectSeq(mems, LAMBDA m : Key(m) = keys[k])]

\* variant: only neighbours in scan order are compared
DuplicatePairs_NeighboursOnly(g) ==
  IF Len(g) < 2 THEN <<>>
  ELSE Flatten([i \in 1..Len(g) |->
         Flatten([j \in 1..Len(g) |->
           IF j = i + 1 /\ SimilarityAtLeast(g[i].vector, g[j].vector, SimilarityThresholdPct)
           THEN << <<g[i], g[j]>> >> ELSE <<>>])])

\* the (mem1, mem2) pairs of one group for which _merge_memories is called, in
\* the order of the two nested loops
DuplicatePairs(g) ==
  IF Len(g) < 2 THEN <<>>
  ELSE Flatten([i \in 1..Len(g) |->
         Flatten([j \in 1..Len(g) |->
           IF j > i /\ SimilarityAtLeast(g[i].vector, g[j].vector, SimilarityThresholdPct)
           THEN << <<g[i], g[j]>> >> ELSE <<>>])])

\* variant: the merge keeps the older memory of the pair
MergeMemories_KeepsOlder(mem1, mem2) ==
  IF TimestampOf(mem1) <= TimestampOf(mem2)
  THEN [keeper |-> mem1, to_remove |-> mem2]
  ELSE [keeper |-> mem2, to_remove |-> mem1]

\* MemoryJanitor._merge_memories: which one is kept and which one is deleted
MergeMemories(mem1, mem2) ==
  IF TimestampOf(mem1) >= TimestampOf(mem2)
  THEN [keeper |-> mem1, to_remove |-> mem2]
  ELSE [keeper |-> mem2, to_remove |-> mem1]

\* every merge of the phase, in call order
Merges(mems) ==
  LET groups == GroupsBy(mems, GroupKey)
      pairs == Flatten([k \in 1..Len(groups) |-> DuplicatePairs(groups[k])])
  IN [p \in 1..Len(pairs) |-> MergeMemories(pairs[p][1], pairs[p][2])]

DeduplicateOps(mems) ==
  LET ms == Merges(mems)
  IN [p \in 1..Len(ms) |-> DeleteOp(ms[p].to_remove, "duplicate", "duplicates_merged")]

\* ---- Phase 2: resolve_conflicts
\* topic_key = f"{category or 'memory'}:{workspace_name or 'global'}".  After
\* phases 0 and 0.5 neither part contains ':', so the pair identifies the key.
TopicKey(m) ==
  <<Get(MetaOf(m), "category", "memory"), Get(MetaOf(m), "workspace_name", GlobalWs)>>

\* `float(ts) if ts else 0` of a numeric timestamp
FloatTs(m) == TimestampOf(m)

Conflicting(mem1, mem2) ==
  /\ SimilarityAtLeast(mem1.vector, mem2.vector, TopicThresholdPct)
  /\ Abs(FloatTs(mem1) - FloatTs(mem2)) > Day

\* MemoryJanitor._detect_conflicts
DetectConflicts(memories) ==
  IF Len(memories) < 2 THEN <<>>
  ELSE LET group(i) == <<memories[i]>> \o
                       SelectSeq(SubSeq(memories, i + 1, Len(memories)),
                                 LAMBDA m2 : Conflicting(memories[i], m2))
       IN SelectSeq([i \in 1..Len(memories) |-> group(i)], LAMBDA g : Len(g) > 1)

\* sorted(conflict_group, key=timestamp, reverse=True): stable
RECURSIVE InsertByTs(_, _)
InsertByTs(x, s) ==
  IF s = <<>> THEN <<x>>
  ELSE IF Get(MetaOf(s[1]), "timestamp", 0) > Get(MetaOf(x), "timestamp", 0)
  THEN <<s[1]>> \o InsertByTs(x, Tail(s))
  ELSE <<x>> \o s

RECURSIVE SortNewestFirst(_)
SortNewestFirst(s) ==
  IF s = <<>> THEN <<>> ELSE InsertByTs(s[1], SortNewestFirst(Tail(s)))

\* variant: the group is not sorted, the first-scanned member is kept
ToArchive_Unsorted(conflict_group) == Tail(conflict_group)

\* to_archive = sorted_memories[1:]
ToArchive(conflict_group) == Tail(SortNewestFirst(conflict_group))

ResolveConflictsOps(mems) ==
  LET topics == GroupsBy(mems, TopicKey)
      groups == Flatten([t \in 1..Len(topics) |->
                  IF Len(topics[t]) < 2 THEN <<>> ELSE DetectConflicts(topics[t])])
      olds == Flatten([g \in 1..Len(groups) |-> ToArchive(groups[g])])
  IN [k \in 1..Len(olds) |-> DeleteOp(olds[k], "superseded_by_newer", "conflicts_resolved")]

\* ---- Phase 3: archive_stale_memories
CutoffTimestamp == Now - StaleThresholdDays * Day

\* last_accessed = float(meta.get("last_accessed", meta.get("timestamp", 0)) or 0)
LastAccessedOf(m) ==
  Get(MetaOf(m), "last_accessed", Get(MetaOf(m), "timestamp", 0))

\* variant: age alone decides, whatever the access count
IsStale_OldOnly(m) == LastAccessedOf(m) < CutoffTimestamp

\* `last_accessed < cutoff_timestamp and access_count < self.min_access_count`
IsStale(m) ==
  /\ LastAccessedOf(m) < CutoffTimestamp
  /\ Get(MetaOf(m), "access_count", 0) < MinAccessCount

ArchiveStaleOps(mems) ==
  Flatten([i \in 1..Len(mems) |->
    IF IsStale(mems[i]) THEN <<DeleteOp(mems[i], "stale", "stale_archived")>> ELSE <<>>])

\* ---- Phase 4: update_health_scores
\* _calculate_health_score, as the exact fraction HealthScaled / HealthDen.
\* Timestamps are whole half-days away from the clock, so
\*   age_score     = max(0, 100 - age_days / 365 * 50)     = max(0, 7300 - 5 h) / 73
\*   recency_score = max(0, 100 - recency_days / 180 * 100) = max(0, 1800 - 5 r) / 18
\* with h and r the age and the recency in half-days.
HealthDen == 10 * 73 * 18

HealthScaled(m) ==
  LET meta == MetaOf(m)
      created == Get(meta, "timestamp", Now)
      last_accessed == Get(meta, "last_accessed", created)
      access_count == Get(meta, "access_count", 0)
      h == (Now - created) \div HalfDay
      r == (Now - last_accessed) \div HalfDay
      usage_score == Min(100, access_count * 10)
  IN 3 * 18 * Max(0, 7300 - 5 * h) + 4 * 73 * Max(0, 1800 - 5 * r)
       + 3 * 73 * 18 * usage_score

UpdateHealthOne(m) ==
  IF Truthy(m.metadata)
  THEN <<PutOp(m, Put(Put(m.metadata, "health_score", HealthScaled(m)),
                      "health_updated_at", Now),
               "health_updated")>>
  ELSE <<>>

UpdateHealthOps(mems) == Flatten([i \in 1..Len(mems) |-> UpdateHealthOne(mems[i])])

(***************************************************************************)
(* Executing a phase's storage operations against the collection.          *)
(* f names the storage call that fails: 0 none, -1 the get_collection of   *)
(* _get_all_memories, -2 its scroll, 2i-1 the first call of operation i,   *)
(* 2i the second call (the upsert) of an "update" operation i.             *)
(***************************************************************************)
\* variant: the upsert does not carry the document over
UpdatedPoint_EmptyDocument(point, metadata) ==
  [document |-> "",
   metadata |-> metadata,
   vector |-> WrapVector(ExtractVector(point.vector))]

\* the point _update_memory_metadata upserts over the retrieved one
UpdatedPoint(point, metadata) ==
  [document |-> point.document,
   metadata |-> metadata,
   vector |-> WrapVector(ExtractVector(point.vector))]

\* the point update_health_scores upserts
HealthPoint(op) ==
  [document |-> op.content, metadata |-> op.metadata, vector |-> WrapVector(op.vector)]

\* _update_memory_metadata catches every exception, logs it and returns
UpdateSwallows(failedCall) == failedCall

RECURSIVE ApplyFrom(_, _, _, _)
ApplyFrom(ops, i, f, acc) ==
  IF i > Len(ops) THEN acc
  ELSE LET op == ops[i]
           failedCall == f = 2 * i - 1 \/ (op.kind = "update" /\ f = 2 * i)
           counted == [acc.stats EXCEPT ![op.stat] = @ + 1]
       IN IF failedCall /\ ~(op.kind = "update" /\ UpdateSwallows(failedCall))
          THEN [acc EXCEPT !.raised = TRUE, !.faults = @ + 1]
          ELSE IF op.kind = "update"
          THEN ApplyFrom(ops, i + 1, f,
                 [acc EXCEPT
                    !.store = IF failedCall \/ op.id \notin DOMAIN acc.store
                              THEN acc.store
                              ELSE Put(acc.store, op.id,
                                       UpdatedPoint(acc.store[op.id], op.metadata)),
                    !.stats = counted,
                    !.faults = @ + (IF failedCall THEN 1 ELSE 0)])
          ELSE IF op.kind = "delete"
          THEN ApplyFrom(ops, i + 1, f,
                 [acc EXCEPT
                    !.store = [x \in DOMAIN acc.store \ {op.id} |-> acc.store[x]],
                    !.stats = counted,
                    !.log = @ \cup {[id |-> op.id, reason |-> op.reason]}])
          ELSE ApplyFrom(ops, i + 1, f,
                 [acc EXCEPT
                    !.store = Put(acc.store, op.id, HealthPoint(op)),
                    !.stats = counted])

\* the storage calls an operation list makes, as fault codes
CallsOf(ops) ==
  {2 * i - 1 : i \in 1..Len(ops)} \cup {2 * i : i \in {j \in 1..Len(ops) : ops[j].kind = "update"}}

\* what _get_all_memories returns: [] when get_collection raises (logged only)
Loaded(st, f) == IF f = -1 THEN <<>> ELSE GetAllMemories(st)

\* the storage call a fault code names
CallKind(ops, f) ==
  IF f = -1 THEN "get_collection"
  ELSE IF f = -2 THEN "scroll"
  ELSE IF f % 2 = 0 THEN "upsert"
  ELSE IF ops[(f + 1) \div 2].kind = "update" THEN "retrieve"
  ELSE IF ops[(f + 1) \div 2].kind = "delete" THEN "delete"
  ELSE "upsert"

\* the result of one phase: the collection, the counters, whether it raised
PhaseResult(st, sts, ops, f) ==
  IF f = -2
  THEN [store |-> st, stats |-> sts, log |-> {}, raised |-> TRUE, faults |-> 1]
  ELSE ApplyFrom(ops, 1, f,
         [store |-> st, stats |-> sts, log |-> {}, raised |-> FALSE,
          faults |-> IF f = -1 THEN 1 ELSE 0])

(***************************************************************************)
(* MemoryJanitor: run_maintenance                                          *)
(***************************************************************************)
NoReport == [returned |-> FALSE]

InitStats ==
  [duplicates_merged |-> 0, conflicts_resolved |-> 0, stale_archived |-> 0,
   health_updated |-> 0, workspace_fixed |-> 0, category_fixed |-> 0,
   empty_deleted |-> 0, short_deleted |-> 0]

\* generate_report
GenerateReportValue(sts) ==
  [returned |-> TRUE,
   workspace_fixed |-> sts.workspace_fixed,
   category_fixed |-> sts.category_fixed,
   empty_deleted |-> sts.empty_deleted,
   short_deleted |-> sts.short_deleted,
   duplicates_merged |-> sts.duplicates_merged,
   conflicts_resolved |-> sts.conflicts_resolved,
   stale_archived |-> sts.stale_archived,
   health_updated |-> sts.health_updated,
   total_actions |-> sts.duplicates_merged + sts.conflicts_resolved
                       + sts.stale_archived + sts.health_updated
                       + sts.workspace_fixed + sts.category_fixed
                       + sts.empty_deleted + sts.short_deleted]

\* run_maintenance: a phase that raises ends the cycle in the except clause,
\* which logs and re-raises; otherwise the next phase starts
AfterPhase(raisedNow, next) == IF raisedNow THEN "failed" ELSE next

\* one phase of the cycle: load, then issue the operations in order
Phase(name, Ops(_), next) ==
  /\ pc = name
  /\ \E f \in (-2)..(2 * Len(Ops(GetAllMemories(store)))) :
       LET ops == Ops(Loaded(store, f))
           r == PhaseResult(store, stats, ops, f)
       IN /\ f # 0 => (faultBudget > 0 /\ f \in {-1, -2} \cup CallsOf(ops))
          /\ store' = r.store
          /\ stats' = r.stats
          /\ delLog' = delLog \cup r.log
          /\ faults' = faults + r.faults
          /\ faultKind' = IF f = 0 THEN faultKind ELSE CallKind(ops, f)
          /\ faultBudget' = faultBudget - r.faults
          /\ pc' = AfterPhase(r.raised, next)
  /\ snap' = store
  /\ lastPhase' = name
  /\ UNCHANGED <<cycles, report, cycleStart, statsStart, afterClean>>
  /\ UNCHANGED <<trackerVars, indexVars, connVars, libVars, sparseVars, serverVars>>

\* entry of run_maintenance
RunMaintenance ==
  /\ pc \in {"idle", "done", "failed"}
  /\ cycles < MaxCycles
  /\ pc' = "workspace"
  /\ cycles' = cycles + 1
  /\ report' = NoReport
  /\ faults' = 0
  /\ faultKind' = "none"
  /\ dedupSnap' = store
  /\ statsStart' = stats
  /\ delLog' = {}
  /\ keepers' = {}
  /\ localMeta' = EmptyMeta
  /\ cycleStart' = store
  /\ afterClean' = (pc = "done")
  /\ snap' = store
  /\ lastPhase' = "start"
  /\ UNCHANGED <<store, stats, faultBudget>>
  /\ UNCHANGED <<trackerVars, indexVars, connVars, libVars, sparseVars, serverVars>>

FixWorkspaceMetadata ==
  /\ Phase("workspace", FixWorkspaceOps, "category")
  /\ UNCHANGED <<keepers, localMeta, dedupSnap>>

FixCategoryMetadata ==
  /\ Phase("category", FixCategoryOps, "dedup")
  /\ UNCHANGED <<keepers, localMeta, dedupSnap>>

\* the in-memory metadata of an Entry that was keeper in cnt merges
Annotated(meta, cnt) ==
  IF cnt > 0 /\ Truthy(meta)
  THEN Put(Put(meta, "merged_count", Get(meta, "merged_count", 0) + cnt),
           "last_merge", Now)
  ELSE meta

DeduplicateMemories ==
  /\ Phase("dedup", DeduplicateOps, "conflicts")
  /\ dedupSnap' = store
  \* what the phase left in memory, when no storage call failed in it
  /\ LET ms == Merges(GetAllMemories(store))
     IN IF faults' = faults
        THEN /\ keepers' = {ms[k].keeper.id : k \in 1..Len(ms)}
             /\ localMeta' =
                  [id \in DOMAIN store |->
                     Annotated(store[id].metadata,
                               Cardinality({k \in 1..Len(ms) : ms[k].keeper.id = id}))]
        ELSE UNCHANGED <<keepers, localMeta>>

ResolveConflicts ==
  /\ Phase("conflicts", ResolveConflictsOps, "stale")
  /\ UNCHANGED <<keepers, localMeta, dedupSnap>>

ArchiveStaleMemories ==
  /\ Phase("stale", ArchiveStaleOps, "health")
  /\ UNCHANGED <<keepers, localMeta, dedupSnap>>

UpdateHealthScores ==
  /\ Phase("health", UpdateHealthOps, "report")
  /\ UNCHANGED <<keepers, localMeta, dedupSnap>>

\* report = self.generate_report(); return report
GenerateReport ==
  /\ pc = "report"
  /\ report' = GenerateReportValue(stats)
  /\ pc' = "done"
  /\ UNCHANGED <<store, cycles, stats, faultBudget, faults, faultKind, snap,
                 lastPhase, delLog, keepers, localMeta, dedupSnap, cycleStart,
                 statsStart, afterClean>>
  /\ UNCHANGED <<trackerVars, indexVars, connVars, libVars, sparseVars, serverVars>>

(***************************************************************************)
(* The memories the collection may hold when the janitor starts            *)
(***************************************************************************)
Ago(halfDays) == Now - halfDays * HalfDay

Vec(x, y, z) == [name |-> VectorName, values |-> <<x, y, z>>]

\* cosines: V1.V2 = V1.V3 = V2.V3 = 8/9; VM is within 0.9 of V1, V2 and V3;
\* VFar is below 0.75 of all of them; VZero has norm 0
V1 == Vec(2, 2, 1)
V2 == Vec(2, 1, 2)
V3 == Vec(1, 2, 2)
VM == Vec(3, 4, 3)
VFar == Vec(2, -2, 0)
VZero == Vec(0, 0, 0)

Templates ==
  << [document |-> DocDecision,
      metadata |-> [category |-> "decision", workspace_name |-> WsAlpha,
                    timestamp |-> Ago(20), access_count |-> 0],
      vector |-> V1],
     [document |-> DocDecision,
      metadata |-> [category |-> "decision", workspace_name |-> WsAlpha,
                    timestamp |-> Ago(16)],
      vector |-> V2],
     [document |-> DocPattern,
      metadata |-> [category |-> "decision", workspace_name |-> WsAlpha,
                    timestamp |-> Ago(800), last_accessed |-> Ago(2),
                    access_count |-> 0],
      vector |-> V3],
     [document |-> DocDecision,
      metadata |-> [category |-> "decision", project |-> ProjAlpha,
                    timestamp |-> Ago(15)],
      vector |-> VM],
     [document |-> DocDecision,
      metadata |-> [category |-> "decision", workspace_name |-> WsAlphaRaw,
                    timestamp |-> Ago(20)],
      vector |-> V1],
     [document |-> DocPattern,
      metadata |-> [category |-> "bogus", timestamp |-> Ago(800),
                    last_accessed |-> Ago(760), access_count |-> 0],
      vector |-> VFar],
     [document |-> DocNote,
      metadata |-> [category |-> "pattern", timestamp |-> Ago(800),
                    access_count |-> 2, tags |-> TagsDev],
      vector |-> VFar],
     [document |-> DocShort,
      metadata |-> [category |-> "memory", timestamp |-> Ago(2)],
      vector |-> V1],
     [document |-> DocPattern,
      metadata |-> EmptyMeta,
      vector |-> VZero],
     [document |-> DocPattern,
      metadata |-> [category |-> "decision", workspace_name |-> WsAlpha,
                    timestamp |-> Ago(15)],
      vector |-> V3],
     [document |-> DocNote,
      metadata |-> [category |-> "memory", timestamp |-> Ago(2 * StaleThresholdDays),
                    access_count |-> 0],
      vector |-> VFar] >>

\* the collections of 1..MaxMem points, in every scroll order
InitialStores ==
  UNION {{[i \in 1..n |-> Templates[t[i]]] : t \in [1..n -> 1..Len(Templates)]}
           : n \in 1..MaxMem}

\* the janitor constructed over one of the given collections
JanitorInitOf(stores, budget) ==
  /\ store \in stores
  /\ pc = "idle"
  /\ cycles = 0
  /\ stats = InitStats
  /\ report = NoReport
  /\ faultBudget = budget
  /\ faults = 0
  /\ faultKind = "none"
  /\ dedupSnap = store
  /\ statsStart = InitStats
  /\ snap = store
  /\ lastPhase = "none"
  /\ delLog = {}
  /\ keepers = {}
  /\ localMeta = EmptyMeta
  /\ cycleStart = store
  /\ afterClean = FALSE

JanitorInit(budget) == JanitorInitOf(InitialStores, budget)

JanitorNext ==
  \/ RunMaintenance
  \/ FixWorkspaceMetadata
  \/ FixCategoryMetadata
  \/ DeduplicateMemories
  \/ ResolveConflicts
  \/ ArchiveStaleMemories
  \/ UpdateHealthScores
  \/ GenerateReport

\* the janitor at rest, maintaining an empty collection
JanitorIdle ==
  /\ store = << >>
  /\ pc = "idle"
  /\ cycles = 0
  /\ stats = InitStats
  /\ report = NoReport
  /\ faultBudget = 0
  /\ faults = 0
  /\ faultKind = "none"
  /\ dedupSnap = << >>
  /\ statsStart = InitStats
  /\ snap = << >>
  /\ lastPhase = "none"
  /\ delLog = {}
  /\ keepers = {}
  /\ localMeta = EmptyMeta
  /\ cycleStart = << >>
  /\ afterClean = FALSE

(***************************************************************************)
(* File paths and file contents                                            *)
(***************************************************************************)
\* paths are sequences of characters
PathAPy == <<"a", ".", "p", "y">>             \* a.py
PathBJs == <<"B", ".", "J", "S">>             \* B.JS
PathReadme == <<"r", ".", "m", "d">>          \* r.md
PathDotPy == <<".", "p", "y">>                \* .py, a hidden file without extension

\* a file content: its text, the number of pieces text.split("\n") gives, whether
\* ast.parse accepts it, whether the module has a docstring, the lines that hold
\* a triple quote, the import statements of the module body, and the statement
\* nodes ast.walk yields, in that order.  A node has an identity (id), the id
\* of the node whose body list holds it (0 for the module), its lines, the last
\* line of body[0] when that is an expression statement (else 0) and what
\* ast.get_docstring gives for it ("" for None)
StmtNode(node, name, id, body_of, lineno, end_lineno, body0_end, docstring) ==
  [node |-> node, name |-> name, id |-> id, body_of |-> body_of, lineno |-> lineno,
   end_lineno |-> end_lineno, body0_end |-> body0_end, docstring |-> docstring]
SrcTwoFuncs ==
  [text |-> "def f():\n    return 1\n\ndef g():\n    return 2\n",
   nlines |-> 6, syntax_ok |-> TRUE, module_doc |-> FALSE, quote_lines |-> {},
   imports |-> << >>,
   nodes |-> << StmtNode("FunctionDef", "f", 1, 0, 1, 2, 0, ""),
                StmtNode("FunctionDef", "g", 2, 0, 4, 5, 0, "") >>]
SrcNoDefs ==
  [text |-> "x = 1\n", nlines |-> 2, syntax_ok |-> TRUE, module_doc |-> FALSE,
   quote_lines |-> {}, imports |-> << >>, nodes |-> << >>]
\* one line without newline: the module docstring and an import
SrcOneLine ==
  [text |-> "\"\"\"doc\"\"\"; import os", nlines |-> 1, syntax_ok |-> TRUE,
   module_doc |-> TRUE, quote_lines |-> {1},
   imports |-> << [lineno |-> 1, end_lineno |-> 1] >>, nodes |-> << >>]

\* the index of the last c in s, 0 when there is none
LastIndexOf(s, c) ==
  LET idx == {i \in 1..Len(s) : s[i] = c}
  IN IF idx = {} THEN 0 ELSE CHOOSE i \in idx : \A j \in idx : j <= i

\* the last component of a path
BaseName(path) == SubSeq(path, LastIndexOf(path, "/") + 1, Len(path))

\* os.path.splitext(path)[1]: from the last dot of the last component, unless
\* that component has only leading dots before it
SplitExt(path) ==
  LET name == BaseName(path)
      dot == LastIndexOf(name, ".")
  IN IF dot = 0 \/ \A i \in 1..dot : name[i] = "."
     THEN << >>
     ELSE SubSeq(name, dot, Len(name))

\* str.lower() on a string
LowerStr(s) == [i \in 1..Len(s) |-> Lower(s[i])]

IndexableExtensions ==
  { <<".", "p", "y">>, <<".", "j", "s">>, <<".", "t", "s">>, <<".", "j", "s", "x">>,
    <<".", "t", "s", "x">>, <<".", "g", "o">>, <<".", "r", "s">>,
    <<".", "j", "a", "v", "a">>, <<".", "c">>, <<".", "c", "p", "p">>, <<".", "h">>,
    <<".", "h", "p", "p">>, <<".", "c", "s">>, <<".", "r", "b">>, <<".", "p", "h", "p">>,
    <<".", "s", "w", "i", "f", "t">>, <<".", "k", "t">>, <<".", "s", "c", "a", "l", "a">>,
    <<".", "c", "l", "j">>, <<".", "s", "h">>, <<".", "b", "a", "s", "h">>,
    <<".", "z", "s", "h">>, <<".", "l", "u", "a">>, <<".", "r">>, <<".", "m">>,
    <<".", "m", "m">>, <<".", "s", "q", "l">>, <<".", "y", "a", "m", "l">>,
    <<".", "y", "m", "l">>, <<".", "j", "s", "o", "n">>, <<".", "t", "o", "m", "l">> }

(***************************************************************************)
(* FileHashTracker                                                         *)
(***************************************************************************)
\* dict.get(path) when the path has no entry
None == << >>

\* hashlib.md5(content).hexdigest(): equal exactly for equal texts
ComputeHash(content) == <<"md5", content.text>>

IsIndexable(file_path) == LowerStr(SplitExt(file_path)) \in IndexableExtensions

\* d[key] = value
SetItem(d, key, value) ==
  [k \in DOMAIN d \cup {key} |-> IF k = key THEN value ELSE d[k]]

\* d.pop(key, None)
Pop(d, key) == [k \in DOMAIN d \ {key} |-> d[k]]

RecordedHash(fh, file_path) ==
  IF file_path \in DOMAIN fh THEN fh[file_path] ELSE None

\* variant: a change is reported, the new hash is not recorded
HasChangedResult_NoRecord(fh, lc, now, file_path, content) ==
  IF ~IsIndexable(file_path)
  THEN [result |-> FALSE, file_hashes |-> fh, last_check |-> lc]
  ELSE [result |-> RecordedHash(fh, file_path) # ComputeHash(content),
        file_hashes |-> fh,
        last_check |-> SetItem(lc, file_path, now)]

\* has_changed: the value returned and the tracker it leaves
HasChangedResult(fh, lc, now, file_path, content) ==
  IF ~IsIndexable(file_path)
  THEN [result |-> FALSE, file_hashes |-> fh, last_check |-> lc]
  ELSE LET new_hash == ComputeHash(content)
           old_hash == RecordedHash(fh, file_path)
       IN IF old_hash # new_hash
          THEN [result |-> TRUE,
                file_hashes |-> SetItem(fh, file_path, new_hash),
                last_check |-> SetItem(lc, file_path, now)]
          ELSE [result |-> FALSE, file_hashes |-> fh,
                last_check |-> SetItem(lc, file_path, now)]

\* mark_indexed: the tracker it leaves
MarkIndexedResult(fh, lc, now, file_path, content) ==
  IF IsIndexable(file_path)
  THEN [file_hashes |-> SetItem(fh, file_path, ComputeHash(content)),
        last_check |-> SetItem(lc, file_path, now)]
  ELSE [file_hashes |-> fh, last_check |-> lc]

TrackerPaths == {PathAPy, PathBJs, PathReadme, PathDotPy}
Contents == {SrcTwoFuncs, SrcNoDefs}

NoCall == [op |-> "none", path |-> << >>, content |-> SrcNoDefs, result |-> FALSE,
           before |-> << >>]

\* one call of the tracker at time clock
TrackerCall(op, file_path, content, result) ==
  /\ clock < MaxClock
  /\ clock' = clock + 1
  /\ trackerPrev' = trackerLast
  /\ trackerLast' = [op |-> op, path |-> file_path, content |-> content,
                     result |-> result, before |-> file_hashes]
  /\ UNCHANGED <<janitorVars, indexVars, connVars, libVars, sparseVars, serverVars>>

HasChanged ==
  \E file_path \in TrackerPaths, content \in Contents :
    LET r == HasChangedResult(file_hashes, last_check, clock, file_path, content)
    IN /\ file_hashes' = r.file_hashes
       /\ last_check' = r.last_check
       /\ TrackerCall("has_changed", file_path, content, r.result)

MarkIndexed ==
  \E file_path \in TrackerPaths, content \in Contents :
    LET r == MarkIndexedResult(file_hashes, last_check, clock, file_path, content)
    IN /\ file_hashes' = r.file_hashes
       /\ last_check' = r.last_check
       /\ TrackerCall("mark_indexed", file_path, content, FALSE)

RemoveFile ==
  \E file_path \in TrackerPaths :
    /\ file_hashes' = Pop(file_hashes, file_path)
    /\ last_check' = Pop(last_check, file_path)
    /\ TrackerCall("remove_file", file_path, SrcNoDefs, FALSE)

Clear ==
  /\ file_hashes' = << >>
  /\ last_check' = << >>
  /\ TrackerCall("clear", << >>, SrcNoDefs, FALSE)

\* FileHashTracker.__init__
TrackerInit ==
  /\ file_hashes = << >>
  /\ last_check = << >>
  /\ clock = 0
  /\ trackerLast = NoCall
  /\ trackerPrev = NoCall

TrackerNext ==
  \/ HasChanged
  \/ MarkIndexed
  \/ RemoveFile
  \/ Clear

(***************************************************************************)
(* CodeChunker and index_codebase                                          *)
(***************************************************************************)
BatchSize == 10
MaxChunkSize == 500

\* pathlib.Path(path).suffix: from the last dot of the last component, when that
\* dot is neither its first nor its last character
PathSuffix(path) ==
  LET name == BaseName(path)
      dot == LastIndexOf(name, ".")
  IN IF dot > 1 /\ dot < Len(name) THEN SubSeq(name, dot, Len(name)) ELSE << >>

\* language_map.get(ext, "text")
LanguageOfExt(ext) ==
  CASE ext = <<".", "p", "y">> -> "python"
    [] ext = <<".", "j", "s">> -> "javascript"
    [] ext = <<".", "t", "s">> -> "typescript"
    [] ext = <<".", "j", "s", "x">> -> "javascript"
    [] ext = <<".", "t", "s", "x">> -> "typescript"
    [] ext = <<".", "g", "o">> -> "go"
    [] ext = <<".", "r", "s">> -> "rust"
    [] ext = <<".", "j", "a", "v", "a">> -> "java"
    [] ext = <<".", "c">> -> "c"
    [] ext = <<".", "c", "p", "p">> -> "cpp"
    [] ext = <<".", "h">> -> "c"
    [] ext = <<".", "h", "p", "p">> -> "cpp"
    [] ext = <<".", "c", "s">> -> "csharp"
    [] ext = <<".", "r", "b">> -> "ruby"
    [] ext = <<".", "p", "h", "p">> -> "php"
    [] ext = <<".", "s", "w", "i", "f", "t">> -> "swift"
    [] ext = <<".", "k", "t">> -> "kotlin"
    [] ext = <<".", "s", "h">> -> "shell"
    [] ext = <<".", "s", "q", "l">> -> "sql"
    [] ext = <<".", "y", "a", "m", "l">> -> "yaml"
    [] ext = <<".", "y", "m", "l">> -> "yaml"
    [] ext = <<".", "j", "s", "o", "n">> -> "json"
    [] ext = <<".", "t", "o", "m", "l">> -> "toml"
    [] ext = <<".", "m", "d">> -> "markdown"
    [] OTHER -> "text"

\* the FileInfo of a file: its path and detected language
AnalyzeFileInMemory(file_path, file_content) ==
  [path |-> file_path, language |-> LanguageOfExt(LowerStr(PathSuffix(file_path)))]

\* "\n".join(lines[a - 1 : b]) of a content
Slice(content, a, b) ==
  [text |-> content.text, from |-> a, to |-> Min(b, content.nlines)]

\* CodeChunk(...) with the hash __post_init__ computes; "" stands for None
CodeChunkOf(content, chunk_type, name, start_line, end_line, file_path, language, parent_class, docstring) ==
  [content |-> content, chunk_type |-> chunk_type, name |-> name,
   start_line |-> start_line, end_line |-> end_line, file_path |-> file_path,
   language |-> language, parent_class |-> parent_class, docstring |-> docstring,
   hash |-> <<"md5", file_path, start_line, content>>]

CodeChunk(content, chunk_type, name, start_line, end_line, file_path, language) ==
  CodeChunkOf(content, chunk_type, name, start_line, end_line, file_path, language,
              "", "")

CreateFallbackChunk(content, file_path, language) ==
  CodeChunk(Slice(content, 1, Min(content.nlines, MaxChunkSize)), "file", "", 1,
            content.nlines, file_path, language)

\* the smallest element of a non-empty set of numbers
Least(S) == CHOOSE x \in S : \A y \in S : x <= y

\* the file_header chunk: from the first of the first 20 lines that holds a
\* triple quote to the next line that holds one, or past the last line
FileHeaderChunks(content, file_path) ==
  LET opening == {i \in content.quote_lines : i <= 20}
  IN IF ~content.module_doc \/ opening = {}
     THEN << >>
     ELSE LET i == Least(opening)
              closing == {j \in content.quote_lines : j > i}
              end == IF closing = {} THEN content.nlines + 1 ELSE Least(closing)
          IN << CodeChunkOf(Slice(content, i, end), "file_header", "", i, end,
                            file_path, "python", "", "doc") >>

\* the import_block chunk: from the first import of the module body to the last
ImportBlockChunks(content, file_path) ==
  LET imports == content.imports
  IN IF imports = << >>
     THEN << >>
     ELSE LET start_line == imports[1].lineno
              end_line == imports[Len(imports)].end_lineno
          IN << CodeChunk(Slice(content, start_line, end_line), "import_block", "",
                          start_line, end_line, file_path, "python") >>

\* the name of the first class ast.walk yields whose body list holds the node
ParentClass(content, n) ==
  LET classes == SelectSeq(content.nodes,
                           LAMBDA p : p.node = "ClassDef" /\ n.body_of = p.id)
  IN IF classes = << >> THEN "" ELSE classes[1].name

FunctionChunk(content, file_path, n) ==
  LET parent_class == ParentClass(content, n)
  IN CodeChunkOf(Slice(content, n.lineno, n.end_lineno),
                 IF parent_class # "" THEN "method" ELSE "function", n.name,
                 n.lineno, n.end_lineno, file_path, "python", parent_class,
                 n.docstring)

\* variant: the class chunk runs to the end of the class
ClassEndLine_WholeClass(n) == n.end_lineno

\* the class chunk ends with body[0] when that is an expression statement
ClassEndLine(n) == IF n.body0_end # 0 THEN n.body0_end ELSE n.lineno

ClassChunk(content, file_path, n) ==
  CodeChunkOf(Slice(content, n.lineno, ClassEndLine(n)), "class", n.name, n.lineno,
              ClassEndLine(n), file_path, "python", "", n.docstring)

ChunkPythonFile(content, file_path) ==
  IF ~content.syntax_ok
  THEN <<CreateFallbackChunk(content, file_path, "python")>>
  ELSE LET defs == SelectSeq(content.nodes,
                             LAMBDA n : n.node \in {"FunctionDef", "ClassDef"})
       IN FileHeaderChunks(content, file_path)
            \o ImportBlockChunks(content, file_path)
            \o [k \in 1..Len(defs) |->
                  IF defs[k].node = "FunctionDef"
                  THEN FunctionChunk(content, file_path, defs[k])
                  ELSE ClassChunk(content, file_path, defs[k])]

ChunkFile(content, file_path, language) ==
  IF language = "python"
  THEN ChunkPythonFile(content, file_path)
  ELSE <<CreateFallbackChunk(content, file_path, language)>>

\* variant: every file is chunked, the change tracker is only updated
ProcessFile_NoHashCheck(fh, lc, now, file) ==
  LET info == AnalyzeFileInMemory(file.path, file.content)
      mi == MarkIndexedResult(fh, lc, now, file.path, file.content)
  IN [skipped |-> FALSE,
      chunks |-> ChunkFile(file.content, file.path, info.language),
      file_content |-> file.content,
      file_hashes |-> mi.file_hashes, last_check |-> mi.last_check]

\* process_file on one file: its result and the tracker it leaves
ProcessFile(fh, lc, now, file) ==
  LET info == AnalyzeFileInMemory(file.path, file.content)
      hc == HasChangedResult(fh, lc, now, file.path, file.content)
  IN IF ~hc.result
     THEN LET mi == MarkIndexedResult(hc.file_hashes, hc.last_check, now, file.path,
                                      file.content)
          IN [skipped |-> TRUE, chunks |-> << >>, file_content |-> file.content,
              file_hashes |-> mi.file_hashes, last_check |-> mi.last_check]
     ELSE [skipped |-> FALSE,
           chunks |-> ChunkFile(file.content, file.path, info.language),
           file_content |-> file.content,
           file_hashes |-> hc.file_hashes, last_check |-> hc.last_check]

\* asyncio.gather over the batch: process_file never awaits, so the files are
\* processed one after the other, in batch order
RECURSIVE ProcessBatch(_, _, _, _, _, _)
ProcessBatch(batch, k, fh, lc, now, acc) ==
  IF k > Len(batch)
  THEN [results |-> acc, file_hashes |-> fh, last_check |-> lc]
  ELSE LET r == ProcessFile(fh, lc, now, batch[k])
       IN ProcessBatch(batch, k + 1, r.file_hashes, r.last_check, now,
                       Append(acc, [skipped |-> r.skipped, chunks |-> r.chunks,
                                    file_content |-> r.file_content]))

\* the point index_codebase stores for a chunk
ChunkPoint(chunk, target_workspace) ==
  [document |-> <<chunk.file_path, chunk.name, chunk.content>>,
   metadata |->
     LET base == [type |-> <<"code_", chunk.chunk_type>>, category |-> "codebase",
                  workspace |-> target_workspace, file_path |-> chunk.file_path,
                  language |-> chunk.language, chunk_type |-> chunk.chunk_type,
                  start_line |-> chunk.start_line, end_line |-> chunk.end_line,
                  content_hash |-> chunk.hash, timestamp |-> Now]
         named == IF chunk.name # "" THEN Put(base, "name", chunk.name) ELSE base
         owned == IF chunk.parent_class # ""
                  THEN Put(named, "parent_class", chunk.parent_class) ELSE named
     IN IF chunk.docstring # "" THEN Put(owned, "docstring", chunk.docstring)
        ELSE owned]

IndexPaths == {PathAPy, PathBJs, PathReadme}

\* the files mappings: up to MaxFiles distinct paths, in every insertion order
FilesMappings ==
  UNION {{f \in [1..n -> [path : IndexPaths, content : Contents]] :
            \A i, j \in 1..n : i # j => f[i].path # f[j].path}
           : n \in 0..MaxFiles}

NoFiles == [valid |-> FALSE, files |-> << >>]
NoReturn == [status |-> "none", indexed |-> 0, chunks |-> 0, total |-> 0]

\* index_codebase is called with one of the files mappings
IndexCodebaseOf(mappings) ==
  /\ idxPc \in {"idle", "done", "failed"}
  /\ runs < MaxRuns
  /\ runs' = runs + 1
  /\ \E fs \in mappings :
       /\ files' = fs
       /\ IF Len(fs) = 0
          THEN /\ idxPc' = "done"
               /\ idxReturn' = [status |-> "error", indexed |-> 0, chunks |-> 0,
                                total |-> 0]
          ELSE /\ idxPc' = "gather"
               /\ idxReturn' = NoReturn
  /\ prevFiles' = [valid |-> idxPc = "done", files |-> files]
  /\ pointsAtStart' = Len(points)
  /\ indexed_count' = 0
  /\ chunk_count' = 0
  /\ seen_hashes' = {}
  /\ batchStart' = 0
  /\ results' = << >>
  /\ cursor' = [file |-> 1, chunk |-> 1]
  /\ UNCHANGED <<points, trackerVars, janitorVars, connVars, libVars, sparseVars, serverVars>>

IndexCodebase == IndexCodebaseOf(FilesMappings)

\* results = await asyncio.gather(*tasks)
GatherBatch ==
  /\ idxPc = "gather"
  /\ LET batch == SubSeq(files, batchStart + 1, Min(batchStart + BatchSize, Len(files)))
         r == ProcessBatch(batch, 1, file_hashes, last_check, clock, << >>)
     IN /\ results' = r.results
        /\ file_hashes' = r.file_hashes
        /\ last_check' = r.last_check
  /\ clock' = clock + 1
  /\ cursor' = [file |-> 1, chunk |-> 1]
  /\ idxPc' = "store"
  /\ UNCHANGED <<runs, files, batchStart, seen_hashes, indexed_count, chunk_count,
                 points, idxReturn, pointsAtStart, prevFiles, trackerLast, trackerPrev,
                 janitorVars, connVars, libVars, sparseVars, serverVars>>

\* the store loop meets a skipped file: indexed_count += 1; continue
CountSkippedFile ==
  /\ idxPc = "store"
  /\ cursor.file <= Len(results)
  /\ results[cursor.file].skipped
  /\ indexed_count' = indexed_count + 1
  /\ cursor' = [file |-> cursor.file + 1, chunk |-> 1]
  /\ UNCHANGED <<idxPc, runs, files, results, batchStart, seen_hashes, chunk_count,
                 points, idxReturn, pointsAtStart, prevFiles, trackerVars, janitorVars,
                 connVars, libVars, sparseVars, serverVars>>

\* variant: no chunk counts as a duplicate
IsDuplicate_Never(chunk, seen) == FALSE

\* if chunk.hash in seen_hashes
IsDuplicate(chunk, seen) == chunk.hash \in seen

\* the store loop handles one chunk: skips a hash already seen, stores the others
StoreChunk ==
  /\ idxPc = "store"
  /\ cursor.file <= Len(results)
  /\ ~results[cursor.file].skipped
  /\ cursor.chunk <= Len(results[cursor.file].chunks)
  /\ LET chunk == results[cursor.file].chunks[cursor.chunk]
     IN IF IsDuplicate(chunk, seen_hashes)
        THEN UNCHANGED <<seen_hashes, points, chunk_count>>
        ELSE /\ seen_hashes' = seen_hashes \cup {chunk.hash}
             /\ points' = Append(points,
                                 ChunkPoint(chunk, NormalizeWorkspaceName(WsAlphaRaw)))
             /\ chunk_count' = chunk_count + 1
  /\ cursor' = [cursor EXCEPT !.chunk = @ + 1]
  /\ UNCHANGED <<idxPc, runs, files, results, batchStart, indexed_count, idxReturn,
                 pointsAtStart, prevFiles, trackerVars, janitorVars, connVars, libVars, sparseVars, serverVars>>

\* the chunks of a file are exhausted: the store loop moves to the next file
NextFile ==
  /\ idxPc = "store"
  /\ cursor.file <= Len(results)
  /\ ~results[cursor.file].skipped
  /\ cursor.chunk > Len(results[cursor.file].chunks)
  /\ cursor' = [file |-> cursor.file + 1, chunk |-> 1]
  /\ UNCHANGED <<idxPc, runs, files, results, batchStart, seen_hashes, indexed_count,
                 chunk_count, points, idxReturn, pointsAtStart, prevFiles, trackerVars,
                 janitorVars, connVars, libVars, sparseVars, serverVars>>

\* the statements after the store loop, once per batch, on the loop's last file:
\* mark_indexed(file_info.path, file_content); indexed_count += 1
FinishBatch ==
  /\ idxPc = "store"
  /\ cursor.file > Len(results)
  /\ LET last == files[batchStart + Len(results)]
         mi == MarkIndexedResult(file_hashes, last_check, clock, last.path,
                                 results[Len(results)].file_content)
     IN /\ file_hashes' = mi.file_hashes
        /\ last_check' = mi.last_check
  /\ clock' = clock + 1
  /\ indexed_count' = indexed_count + 1
  /\ batchStart' = batchStart + BatchSize
  /\ idxPc' = IF batchStart + BatchSize < Len(files) THEN "gather" ELSE "return"
  /\ UNCHANGED <<runs, files, results, cursor, seen_hashes, chunk_count, points,
                 idxReturn, pointsAtStart, prevFiles, trackerLast, trackerPrev,
                 janitorVars, connVars, libVars, sparseVars, serverVars>>

\* return f"Indexed {indexed_count} files ({chunk_count} code chunks) from ..."
ReturnIndexed ==
  /\ idxPc = "return"
  /\ idxReturn' = [status |-> "indexed", indexed |-> indexed_count,
                   chunks |-> chunk_count, total |-> Len(files)]
  /\ idxPc' = "done"
  /\ UNCHANGED <<runs, files, results, batchStart, cursor, seen_hashes, indexed_count,
                 chunk_count, points, pointsAtStart, prevFiles, trackerVars,
                 janitorVars, connVars, libVars, sparseVars, serverVars>>

IndexInit ==
  /\ idxPc = "idle"
  /\ runs = 0
  /\ files = << >>
  /\ results = << >>
  /\ batchStart = 0
  /\ cursor = [file |-> 1, chunk |-> 1]
  /\ seen_hashes = {}
  /\ indexed_count = 0
  /\ chunk_count = 0
  /\ points = << >>
  /\ idxReturn = NoReturn
  /\ pointsAtStart = 0
  /\ prevFiles = NoFiles

IndexNext ==
  \/ IndexCodebase
  \/ GatherBatch
  \/ CountSkippedFile
  \/ StoreChunk
  \/ NextFile
  \/ FinishBatch
  \/ ReturnIndexed

(***************************************************************************)
(* QdrantConnector: store and search, one step per await                   *)
(***************************************************************************)
Callers == {1, 2}
Queries == {"alpha", "beta"}
Limits == {1, 10}

IdleTask == [op |-> "none", pc |-> "idle", arg |-> "", limit |-> 0, saw |-> "unknown",
             result |-> << >>, error |-> "none", embeds |-> 0, creates |-> 0,
             existedAtStart |-> FALSE]

Finished(t) == task[t].pc \in {"idle", "returned", "failed"}

\* a caller starts store(entry)
Store(t) ==
  /\ Finished(t)
  /\ connCalls < MaxConnCalls
  /\ connCalls' = connCalls + 1
  /\ \E content \in Queries :
       task' = [task EXCEPT ![t] = [IdleTask EXCEPT !.op = "store", !.pc = "ensure",
                                                   !.arg = content,
                                                   !.existedAtStart = collExists]]
  /\ UNCHANGED <<collExists, collPoints, createCalls, embedCalls>>
  /\ UNCHANGED <<janitorVars, trackerVars, indexVars, libVars, sparseVars, serverVars>>

\* _ensure_collection_exists: collection_exists = await client.collection_exists(..)
EnsureCollectionExists(t) ==
  /\ task[t].pc = "ensure"
  /\ task' = [task EXCEPT ![t].saw = IF collExists THEN "yes" ELSE "no",
                          ![t].pc = IF collExists THEN "embed" ELSE "create"]
  /\ UNCHANGED <<collExists, collPoints, createCalls, embedCalls, connCalls>>
  /\ UNCHANGED <<janitorVars, trackerVars, indexVars, libVars, sparseVars, serverVars>>

\* await client.create_collection(..): the store refuses to create a collection
\* that exists, and the error leaves _ensure_collection_exists and store
CreateCollection(t) ==
  /\ task[t].pc = "create"
  /\ IF collExists
     THEN /\ task' = [task EXCEPT ![t].pc = "failed",
                                  ![t].error = "collection already exists",
                                  ![t].creates = @ + 1]
          /\ UNCHANGED <<collExists, createCalls>>
     ELSE /\ collExists' = TRUE
          /\ createCalls' = createCalls + 1
          /\ task' = [task EXCEPT ![t].pc = "indexes", ![t].creates = @ + 1]
  /\ UNCHANGED <<collPoints, embedCalls, connCalls>>
  /\ UNCHANGED <<janitorVars, trackerVars, indexVars, libVars, sparseVars, serverVars>>

\* the create_payload_index loop over the configured field indexes
CreatePayloadIndexes(t) ==
  /\ task[t].pc = "indexes"
  /\ task' = [task EXCEPT ![t].pc = "embed"]
  /\ UNCHANGED <<collExists, collPoints, createCalls, embedCalls, connCalls>>
  /\ UNCHANGED <<janitorVars, trackerVars, indexVars, libVars, sparseVars, serverVars>>

\* embeddings = await embedding_provider.embed_documents([entry.content])
EmbedDocuments(t) ==
  /\ task[t].pc = "embed"
  /\ embedCalls' = embedCalls + 1
  /\ task' = [task EXCEPT ![t].pc = "upsert", ![t].embeds = @ + 1]
  /\ UNCHANGED <<collExists, collPoints, createCalls, connCalls>>
  /\ UNCHANGED <<janitorVars, trackerVars, indexVars, libVars, sparseVars, serverVars>>

\* await client.upsert(..) of one point under a fresh uuid
Upsert(t) ==
  /\ task[t].pc = "upsert"
  /\ collPoints' = Append(collPoints, [id |-> Len(collPoints) + 1,
                                       document |-> task[t].arg, by |-> t])
  /\ task' = [task EXCEPT ![t].pc = "returned"]
  /\ UNCHANGED <<collExists, createCalls, embedCalls, connCalls>>
  /\ UNCHANGED <<janitorVars, trackerVars, indexVars, libVars, sparseVars, serverVars>>

\* a caller starts search(query, limit=limit)
Search(t) ==
  /\ Finished(t)
  /\ connCalls < MaxConnCalls
  /\ connCalls' = connCalls + 1
  /\ \E query \in Queries, limit \in Limits :
       task' = [task EXCEPT ![t] = [IdleTask EXCEPT !.op = "search", !.pc = "exists",
                                                   !.arg = query, !.limit = limit,
                                                   !.existedAtStart = collExists]]
  /\ UNCHANGED <<collExists, collPoints, createCalls, embedCalls>>
  /\ UNCHANGED <<janitorVars, trackerVars, indexVars, libVars, sparseVars, serverVars>>

\* variant: the missing collection does not end the search
SearchCollectionExists_NoReturn(t) ==
  /\ task[t].pc = "exists"
  /\ task' = [task EXCEPT ![t].saw = IF collExists THEN "yes" ELSE "no",
                          ![t].pc = "embed_query"]
  /\ UNCHANGED <<collExists, collPoints, createCalls, embedCalls, connCalls>>
  /\ UNCHANGED <<janitorVars, trackerVars, indexVars, libVars, sparseVars, serverVars>>

\* collection_exists = await client.collection_exists(..); return [] when it is not
SearchCollectionExists(t) ==
  /\ task[t].pc = "exists"
  /\ task' = [task EXCEPT ![t].saw = IF collExists THEN "yes" ELSE "no",
                          ![t].pc = IF collExists THEN "embed_query" ELSE "returned"]
  /\ UNCHANGED <<collExists, collPoints, createCalls, embedCalls, connCalls>>
  /\ UNCHANGED <<janitorVars, trackerVars, indexVars, libVars, sparseVars, serverVars>>

\* query_vector = await embedding_provider.embed_query(query)
EmbedQuery(t) ==
  /\ task[t].pc = "embed_query"
  /\ embedCalls' = embedCalls + 1
  /\ task' = [task EXCEPT ![t].pc = "query", ![t].embeds = @ + 1]
  /\ UNCHANGED <<collExists, collPoints, createCalls, connCalls>>
  /\ UNCHANGED <<janitorVars, trackerVars, indexVars, libVars, sparseVars, serverVars>>

\* await client.query_points(.., limit=limit) without reranker: the store ranks
\* the points, and the first limit of them are returned
QueryPoints(t) ==
  /\ task[t].pc = "query"
  /\ task' = [task EXCEPT ![t].pc = "returned",
                          ![t].result = SubSeq(collPoints, 1,
                                               Min(task[t].limit, Len(collPoints)))]
  /\ UNCHANGED <<collExists, collPoints, createCalls, embedCalls, connCalls>>
  /\ UNCHANGED <<janitorVars, trackerVars, indexVars, libVars, sparseVars, serverVars>>

\* the collection may or may not exist when the connector is first used
ConnInit ==
  /\ collExists \in BOOLEAN
  /\ collPoints = << >>
  /\ createCalls = 0
  /\ embedCalls = 0
  /\ task = [t \in Callers |-> IdleTask]
  /\ connCalls = 0

ConnNext ==
  \/ \E t \in Callers : Store(t)
  \/ \E t \in Callers : EnsureCollectionExists(t)
  \/ \E t \in Callers : CreateCollection(t)
  \/ \E t \in Callers : CreatePayloadIndexes(t)
  \/ \E t \in Callers : EmbedDocuments(t)
  \/ \E t \in Callers : Upsert(t)
  \/ \E t \in Callers : Search(t)
  \/ \E t \in Callers : SearchCollectionExists(t)
  \/ \E t \in Callers : EmbedQuery(t)
  \/ \E t \in Callers : QueryPoints(t)

(***************************************************************************)
(* Stateless library functions, one action per function                    *)
(***************************************************************************)
\* the functions keep no state between calls: a behaviour is one call
NoLibCall == [fn |-> "none"]

LibInit == lastCall = NoLibCall

(***************************************************************************)
(* LocalReranker (reranker.py) and the search of QdrantConnector           *)
(* on a collection that exists (qdrant.py)                                 *)
(***************************************************************************)
\* s[:k] of Python
Prefix(s, k) ==
  IF k >= 0 THEN SubSeq(s, 1, Min(k, Len(s))) ELSE SubSeq(s, 1, Max(0, Len(s) + k))

\* str.split(): the maximal runs of non-blank characters, as a set
SplitWords(s) ==
  {SubSeq(s, i, j) : <<i, j>> \in
     {w \in (1..Len(s)) \X (1..Len(s)) :
        /\ w[1] <= w[2]
        /\ \A k \in w[1]..w[2] : s[k] /= " "
        /\ (w[1] = 1 \/ s[w[1] - 1] = " ")
        /\ (w[2] = Len(s) \/ s[w[2] + 1] = " ")}}

\* term in doc
IsSubstring(term, doc) ==
  \E i \in 0..(Len(doc) - Len(term)) : SubSeq(doc, i + 1, i + Len(term)) = term

\* LocalReranker.__init__: both branches leave enabled False
LocalReranker(enabled) == [attached |-> TRUE, enabled |-> FALSE]

\* reranker=None
NoReranker == [attached |-> FALSE, enabled |-> FALSE]

\* LocalReranker.is_available
IsAvailable(reranker) == reranker.enabled

\* results.sort(key=lambda x: x[1], reverse=True): stable, equal scores keep
\* their input order
RECURSIVE InsertByScore(_, _)
InsertByScore(x, s) ==
  IF s = << >> THEN <<x>>
  ELSE IF s[1].score >= x.score THEN <<s[1]>> \o InsertByScore(x, Tail(s))
  ELSE <<x>> \o s

RECURSIVE SortByScoreDesc(_)
SortByScoreDesc(s) ==
  IF s = << >> THEN << >>
  ELSE InsertByScore(s[Len(s)], SortByScoreDesc(SubSeq(s, 1, Len(s) - 1)))

\* the pass-through of rerank: [(i, score) for i, score in enumerate(scores)],
\* sorted, cut to top_k.  A score is the pair (score, unit): the original
\* scores have unit 1
OriginalPairs(scores, top_k) ==
  Prefix(SortByScoreDesc([i \in 1..Len(scores) |->
                            [index |-> i - 1, score |-> scores[i], unit |-> 1]]), top_k)

\* query_terms = set(query.lower().split())
QueryTerms(query) == SplitWords(LowerStr(query))

\* term_matches of one document
TermMatches(query, doc) ==
  Cardinality({term \in QueryTerms(query) : IsSubstring(term, LowerStr(doc))})

\* the unit of the boosted scores: score * (1.0 + 0.1 * match_ratio) is
\* score * (10 * n + term_matches) / (10 * n) for n query terms, and score for none
BoostUnit(query) == 10 * Max(1, Cardinality(QueryTerms(query)))

\* variant: the boosted scores are not sorted
FallbackRerank_Unsorted(query, documents, scores, top_k) ==
  Prefix([i \in 1..Min(Len(documents), Len(scores)) |->
            [index |-> i - 1,
             score |-> scores[i] * (BoostUnit(query) + TermMatches(query, documents[i])),
             unit |-> BoostUnit(query)]], top_k)

\* LocalReranker._fallback_rerank
FallbackRerank(query, documents, scores, top_k) ==
  Prefix(SortByScoreDesc([i \in 1..Min(Len(documents), Len(scores)) |->
            [index |-> i - 1,
             score |-> scores[i] * (BoostUnit(query) + TermMatches(query, documents[i])),
             unit |-> BoostUnit(query)]]), top_k)

\* LocalReranker.rerank; fails: the executor step raises, and the except
\* branch answers with the original scores
Rerank(enabled, query, documents, scores, top_k, fails) ==
  IF ~enabled \/ documents = << >> THEN OriginalPairs(scores, top_k)
  ELSE IF fails THEN OriginalPairs(scores, top_k)
  ELSE FallbackRerank(query, documents, scores, top_k)

\* ---- inputs
RerankQueries == {<<"a", " ", "b">>, <<"B">>, << >>}
RerankDocs == {<<"a">>, <<"A", "b">>, <<"c">>}
RerankScores == {50, 55}
Candidates == RerankDocs \X RerankScores
CandidateLists == UNION {[1..n -> Candidates] : n \in 0..MaxDocs}
DocsOf(c) == [i \in 1..Len(c) |-> c[i][1]]
ScoresOf(c) == [i \in 1..Len(c) |-> c[i][2]]

\* one call of rerank on an object whose enabled field is either value
RerankCall ==
  /\ lastCall = NoLibCall
  /\ \E enabled \in BOOLEAN, query \in RerankQueries, c \in CandidateLists,
        top_k \in 0..(MaxDocs + 1), fails \in BOOLEAN :
       lastCall' = [fn |-> "rerank", enabled |-> enabled, query |-> query,
                    documents |-> DocsOf(c), scores |-> ScoresOf(c), top_k |-> top_k,
                    fails |-> fails,
                    result |-> Rerank(enabled, query, DocsOf(c), ScoresOf(c), top_k, fails)]
  /\ UNCHANGED <<janitorVars, trackerVars, indexVars, connVars, sparseVars, serverVars>>

\* variant: the search never over-fetches
SearchLimit_NoOverFetch(reranker, limit) == limit

\* search_limit of QdrantConnector.search
SearchLimit(reranker, limit) ==
  IF reranker.attached /\ IsAvailable(reranker) THEN Min(limit * 5, 100) ELSE limit

\* Entry(content=payload["document"], metadata=payload.get("metadata"))
Entry(point) == [content |-> point.document, metadata |-> point.metadata]

\* QdrantConnector.search after the collection_exists check: ranked is the
\* collection in the store's similarity order for the query, of which
\* query_points returns the first search_limit
SearchExisting(reranker, query, limit, ranked, fails) ==
  LET search_limit == SearchLimit(reranker, limit)
      search_results == Prefix(ranked, search_limit)
      documents == [i \in 1..Len(search_results) |-> search_results[i].document]
      scores == [i \in 1..Len(search_results) |-> search_results[i].score]
      reranked_indices == Rerank(reranker.enabled, query, documents, scores, limit, fails)
  IN [requested |-> search_limit,
      points |-> search_results,
      results |->
        IF reranker.attached /\ IsAvailable(reranker) /\ Len(search_results) > limit
        THEN [k \in 1..Len(reranked_indices) |->
                Entry(search_results[reranked_indices[k].index + 1])]
        ELSE [k \in 1..Len(Prefix(search_results, limit)) |-> Entry(search_results[k])]]

\* the rerankers a connector is built with: none, the one LocalReranker's
\* constructor builds, and (reranker: Any) one that reports itself available
Rerankers == {NoReranker, LocalReranker(TRUE), LocalReranker(FALSE),
              [attached |-> TRUE, enabled |-> TRUE]}
SearchLimits == {1, 2, 25}

\* the collection in similarity order: scores do not increase; the metadata of
\* a point is its rank
RankedLists ==
  {[i \in 1..Len(c) |-> [document |-> c[i][1], score |-> c[i][2], metadata |-> i]] :
     c \in {d \in CandidateLists : \A i \in 1..(Len(d) - 1) : d[i][2] >= d[i + 1][2]}}

\* one search of an existing collection
SearchCall ==
  /\ lastCall = NoLibCall
  /\ \E reranker \in Rerankers, query \in RerankQueries, limit \in SearchLimits,
        ranked \in RankedLists, fails \in BOOLEAN :
       lastCall' = [fn |-> "search", reranker |-> reranker, query |-> query,
                    limit |-> limit, ranked |-> ranked, fails |-> fails,
                    out |-> SearchExisting(reranker, query, limit, ranked, fails)]
  /\ UNCHANGED <<janitorVars, trackerVars, indexVars, connVars, sparseVars, serverVars>>

RerankNext == RerankCall \/ SearchCall

(***************************************************************************)
(* make_filter (common/filters.py)                                         *)
(***************************************************************************)
FieldTypes == {"keyword", "integer", "float", "boolean"}
\* the Literal of FilterableField.condition
Conditions == {"==", "!=", ">", ">=", "<", "<=", "any", "except"}
\* condition=None: the field is indexed and has no filter
NoCondition == "None"

\* FilterableField, without name and description
FilterableFields == [field_type : FieldTypes, condition : Conditions \cup {NoCondition},
                     required : BOOLEAN]

\* field_name = f"{METADATA_PATH}.{raw_field_name}"
FieldName(raw_field_name) == <<"metadata", raw_field_name>>

\* models.FieldCondition(key=field_name, match=... / range=...)
FieldCondition(key, kind, value) == [key |-> key, kind |-> kind, value |-> value]

\* the if/elif chain over field.field_type and field.condition: the list the
\* condition is appended to and the primitive, "skip" when nothing is appended,
\* "raise" for the ValueError
RangeKind(condition) ==
  CASE condition = ">" -> "gt" [] condition = ">=" -> "gte"
    [] condition = "<" -> "lt" [] condition = "<=" -> "lte"

\* variant: a float field is dispatched like an integer field
Dispatch_FloatLikeInteger(field) ==
  LET c == field.condition
      t == field.field_type
  IN IF c = NoCondition THEN [to |-> "skip", kind |-> "none"]
     ELSE IF c = "==" /\ t \in {"keyword", "integer", "float", "boolean"}
       THEN [to |-> "must", kind |-> "match_value"]
     ELSE IF c = "!=" /\ t \in {"keyword", "integer", "float", "boolean"}
       THEN [to |-> "must_not", kind |-> "match_value"]
     ELSE IF c \in {">", ">=", "<", "<="} /\ t \in {"integer", "float"}
       THEN [to |-> "must", kind |-> RangeKind(c)]
     ELSE IF c = "any" /\ t \in {"keyword", "integer", "float"}
       THEN [to |-> "must", kind |-> "match_any"]
     ELSE IF c = "except" /\ t \in {"keyword", "integer", "float"}
       THEN [to |-> "must", kind |-> "match_except"]
     ELSE [to |-> "raise", kind |-> "Invalid condition"]

Dispatch(field) ==
  LET c == field.condition
      t == field.field_type
  IN IF t = "keyword" THEN
       CASE c = "==" -> [to |-> "must", kind |-> "match_value"]
         [] c = "!=" -> [to |-> "must_not", kind |-> "match_value"]
         [] c = "any" -> [to |-> "must", kind |-> "match_any"]
         [] c = "except" -> [to |-> "must", kind |-> "match_except"]
         [] c = NoCondition -> [to |-> "skip", kind |-> "none"]
         [] OTHER -> [to |-> "raise", kind |-> "Invalid condition"]
     ELSE IF t = "integer" THEN
       CASE c = "==" -> [to |-> "must", kind |-> "match_value"]
         [] c = "!=" -> [to |-> "must_not", kind |-> "match_value"]
         [] c \in {">", ">=", "<", "<="} -> [to |-> "must", kind |-> RangeKind(c)]
         [] c = "any" -> [to |-> "must", kind |-> "match_any"]
         [] c = "except" -> [to |-> "must", kind |-> "match_except"]
         [] c = NoCondition -> [to |-> "skip", kind |-> "none"]
         [] OTHER -> [to |-> "raise", kind |-> "Invalid condition"]
     ELSE IF t = "float" THEN
       CASE c \in {">", ">=", "<", "<="} -> [to |-> "must", kind |-> RangeKind(c)]
         [] c = NoCondition -> [to |-> "skip", kind |-> "none"]
         [] OTHER -> [to |-> "raise", kind |-> "Invalid condition"]
     ELSE IF t = "boolean" THEN
       CASE c = "==" -> [to |-> "must", kind |-> "match_value"]
         [] c = "!=" -> [to |-> "must_not", kind |-> "match_value"]
         [] c = NoCondition -> [to |-> "skip", kind |-> "none"]
         [] OTHER -> [to |-> "raise", kind |-> "Invalid condition"]
     ELSE [to |-> "raise", kind |-> "Unsupported field type"]

\* the result of a make_filter call that raised
Raised(message, name) == [error |-> message, field |-> name, must |-> << >>,
                          must_not |-> << >>]

\* variant: a null value is skipped whether or not the field is required
NullValue_AlwaysSkipped(field) == "skip"

\* if field_value is None: raise for a required field, else continue
NullValue(field) == IF field.required THEN "raise" ELSE "skip"

\* the loop of make_filter from the i-th item of values on (dict order)
RECURSIVE MakeFilterFrom(_, _, _, _, _)
MakeFilterFrom(filterable_fields, values, i, must, must_not) ==
  IF i > Len(values)
  THEN [error |-> "none", field |-> "", must |-> must, must_not |-> must_not]
  ELSE
    LET raw_field_name == values[i].name
        field_value == values[i].value
    IN IF raw_field_name \notin DOMAIN filterable_fields
       THEN Raised("is not a filterable field", raw_field_name)
       ELSE
         LET field == filterable_fields[raw_field_name]
             d == Dispatch(field)
             cond == FieldCondition(FieldName(raw_field_name), d.kind, field_value)
         IN IF field_value = None
            THEN IF NullValue(field) = "raise"
                 THEN Raised("is required", raw_field_name)
                 ELSE MakeFilterFrom(filterable_fields, values, i + 1, must, must_not)
            ELSE CASE d.to = "raise" -> Raised(d.kind, raw_field_name)
                   [] d.to = "skip" ->
                        MakeFilterFrom(filterable_fields, values, i + 1, must, must_not)
                   [] d.to = "must" ->
                        MakeFilterFrom(filterable_fields, values, i + 1,
                                       Append(must, cond), must_not)
                   [] d.to = "must_not" ->
                        MakeFilterFrom(filterable_fields, values, i + 1,
                                       must, Append(must_not, cond))

\* make_filter(filterable_fields, values)
MakeFilter(filterable_fields, values) ==
  MakeFilterFrom(filterable_fields, values, 1, << >>, << >>)

\* ---- inputs: two declared fields, values under their names and an undeclared one
FieldNames == {"a", "b"}
ValueNames == {"a", "b", "z"}
\* a value of the field's type
AValue == <<"value">>
FieldDicts == [FieldNames -> FilterableFields]
ValueDicts ==
  {v \in UNION {[1..n -> [name : ValueNames, value : {None, AValue}]] : n \in 0..MaxValues} :
     \A i, j \in 1..Len(v) : i /= j => v[i].name /= v[j].name}

\* one call of make_filter
MakeFilterCall ==
  /\ lastCall = NoLibCall
  /\ \E filterable_fields \in FieldDicts, values \in ValueDicts :
       lastCall' = [fn |-> "make_filter", filterable_fields |-> filterable_fields,
                    values |-> values, out |-> MakeFilter(filterable_fields, values)]
  /\ UNCHANGED <<janitorVars, trackerVars, indexVars, connVars, sparseVars, serverVars>>

FilterNext == MakeFilterCall

(***************************************************************************)
(* _calculate_health_score and the point update_health_scores writes,      *)
(* for one memory (memory_janitor.py)                                      *)
(***************************************************************************)
\* metadata dicts with and without key k
WithKey(metas, k, values) == metas \cup {Put(m, k, v) : m \in metas, v \in values}

\* timestamps from before the ageing horizon to after the current time
HealthStamps == {Ago(1600), Ago(730), Ago(2), Ago(0), Ago(-1), Ago(-730)}
HealthCounts == {0, 1, 10, 50}
HealthMetas ==
  WithKey(WithKey(WithKey({[category |-> "memory"]}, "timestamp", HealthStamps),
                  "last_accessed", HealthStamps),
          "access_count", HealthCounts)

\* update_health_scores for a collection of one memory with the given metadata
UpdateHealthScoresCall ==
  /\ lastCall = NoLibCall
  /\ \E meta \in HealthMetas :
       LET memory == [id |-> 1, content |-> DocNote, metadata |-> meta,
                      vector |-> ExtractVector(V1)]
       IN lastCall' = [fn |-> "update_health_scores", metadata |-> meta,
                       health |-> HealthScaled(memory),
                       ops |-> UpdateHealthOne(memory)]
  /\ UNCHANGED <<janitorVars, trackerVars, indexVars, connVars, sparseVars, serverVars>>

HealthNext == UpdateHealthScoresCall

(***************************************************************************)
(* update_files (mcp_server.py): the incremental update tool               *)
(***************************************************************************)
max_files == 50

\* files[file_path]
FileContent(fs, file_path) == fs[CHOOSE i \in 1..Len(fs) : fs[i].path = file_path].content

\* FileHashTracker.get_changed_files: has_changed on every item of files, in
\* dict order; it records the hash of every file it reports.  The paths of a
\* dict are distinct, so each has_changed call sees the tracker of the start
\* for its own path
GetChangedFiles(fs, fh, lc, now) ==
  LET r == [k \in 1..Len(fs) |-> HasChangedResult(fh, lc, now, fs[k].path, fs[k].content)]
      reported == SelectSeq([k \in 1..Len(fs) |-> [path |-> fs[k].path,
                                                    result |-> r[k].result]],
                            LAMBDA x : x.result)
      hashed == {reported[k].path : k \in 1..Len(reported)}
      checked == {fs[k].path : k \in {j \in 1..Len(fs) : fs[j].path \in DOMAIN r[j].last_check}}
      hashOf == [path \in hashed |-> ComputeHash(FileContent(fs, path))]
  IN [changed |-> [k \in 1..Len(reported) |-> reported[k].path],
      file_hashes |-> [path \in DOMAIN fh \cup hashed |->
                         IF path \in hashed THEN hashOf[path] ELSE fh[path]],
      last_check |-> [path \in DOMAIN lc \cup checked |->
                        IF path \in checked THEN now ELSE lc[path]]]

\* variant: every changed file is processed
LimitChanged_NoCap(changed_paths) == changed_paths

\* changed_paths[:max_files] when there are more than max_files
LimitChanged(changed_paths) ==
  IF Len(changed_paths) > max_files THEN Prefix(changed_paths, max_files)
  ELSE changed_paths

\* the concatenation of seqs[lo..hi]
RECURSIVE Concat(_, _, _)
Concat(seqs, lo, hi) ==
  IF lo > hi THEN << >>
  ELSE IF lo = hi THEN seqs[lo]
  ELSE Concat(seqs, lo, (lo + hi) \div 2) \o Concat(seqs, (lo + hi) \div 2 + 1, hi)

\* the loop over changed_paths: the points stored, file by file, and the two
\* counters
UpdateLoop(fs, changed_paths, workspace_name) ==
  LET content == [k \in 1..Len(changed_paths) |-> FileContent(fs, changed_paths[k])]
      language == [k \in 1..Len(changed_paths) |->
                     AnalyzeFileInMemory(changed_paths[k], content[k]).language]
      stored == [k \in 1..Len(changed_paths) |->
                   IF language[k] = "text" THEN << >>
                   ELSE LET chunks == ChunkFile(content[k], changed_paths[k], language[k])
                        IN [c \in 1..Len(chunks) |-> ChunkPoint(chunks[c], workspace_name)]]
      all == Concat(stored, 1, Len(stored))
  IN [stored |-> all,
      indexed_count |-> Cardinality({k \in 1..Len(changed_paths) : language[k] /= "text"}),
      chunk_count |-> Len(all)]

\* update_files(files, workspace_name): the text returned, by its parts, the
\* points stored and the tracker it leaves
UpdateFilesResult(fs, workspace_name, fh, lc, now) ==
  IF workspace_name = << >>
  THEN [status |-> "no workspace", notice |-> FALSE, additional |-> 0,
        indexed_count |-> 0, chunk_count |-> 0, stored |-> << >>,
        file_hashes |-> fh, last_check |-> lc]
  ELSE LET g == GetChangedFiles(fs, fh, lc, now)
           truncated == Len(g.changed) > max_files
           r == UpdateLoop(fs, LimitChanged(g.changed),
                           NormalizeWorkspaceName(workspace_name))
       IN IF g.changed = << >>
          THEN [status |-> "current", notice |-> FALSE, additional |-> 0,
                indexed_count |-> 0, chunk_count |-> 0, stored |-> << >>,
                file_hashes |-> g.file_hashes, last_check |-> g.last_check]
          ELSE [status |-> "updated", notice |-> truncated,
                additional |-> IF truncated THEN Len(fs) - max_files ELSE 0,
                indexed_count |-> r.indexed_count, chunk_count |-> r.chunk_count,
                stored |-> r.stored,
                file_hashes |-> g.file_hashes, last_check |-> g.last_check]

\* ---- inputs
DigitSeq == <<"0", "1", "2", "3", "4", "5", "6", "7", "8", "9">>
\* the i-th Python file: 01.py, 02.py, ...
PathPy(i) == <<DigitSeq[(i \div 10) + 1], DigitSeq[(i % 10) + 1], ".", "p", "y">>
\* a file the tracker indexes and the language map does not know
PathLua == <<"x", ".", "l", "u", "a">>

\* a files mapping: an optional Lua file, then n Python files of one content
FilesOf(lua, n, c) ==
  (IF lua THEN <<[path |-> PathLua, content |-> c]>> ELSE << >>)
    \o [i \in 1..n |-> [path |-> PathPy(i), content |-> c]]

\* mappings of no file, one file, and max_files - 1 to max_files + 1 files
UpdateFilesMappings ==
  {FilesOf(x[1], x[2], c) :
     x \in {<<FALSE, 0>>, <<FALSE, 1>>, <<FALSE, max_files>>, <<FALSE, max_files + 1>>,
            <<TRUE, max_files - 1>>, <<TRUE, max_files>>},
     c \in Contents}

\* the calls: every mapping under a workspace name, and one call without
UpdateCalls ==
  {[files |-> fs, workspace_name |-> WsAlphaRaw] : fs \in UpdateFilesMappings}
    \cup {[files |-> FilesOf(FALSE, 1, SrcTwoFuncs), workspace_name |-> << >>]}

\* one call of the update tool on the server
UpdateFiles ==
  /\ idxPc \in {"idle", "done"}
  /\ runs < MaxRuns
  /\ runs' = runs + 1
  /\ \E call \in UpdateCalls :
       LET fs == call.files
           workspace_name == call.workspace_name
           r == UpdateFilesResult(fs, workspace_name, file_hashes, last_check, clock)
       IN /\ file_hashes' = r.file_hashes
          /\ last_check' = r.last_check
          /\ points' = points \o r.stored
          /\ lastCall' = [fn |-> "update_files", files |-> fs,
                          workspace_name |-> workspace_name, before |-> file_hashes,
                          stored |-> r.stored,
                          result |-> [status |-> r.status, notice |-> r.notice,
                                      additional |-> r.additional,
                                      indexed_count |-> r.indexed_count,
                                      chunk_count |-> r.chunk_count]]
  /\ UNCHANGED <<idxPc, files, results, batchStart, cursor, seen_hashes, indexed_count,
                 chunk_count, idxReturn, pointsAtStart, prevFiles>>
  /\ UNCHANGED <<clock, trackerLast, trackerPrev>>
  /\ UNCHANGED <<janitorVars, connVars, sparseVars, serverVars>>

UpdateNext == UpdateFiles

(***************************************************************************)
(* chunk_python_file on Python sources                                     *)
(***************************************************************************)
\* A source is built from a statement tree given in source order: every
\* statement is a def, an async def, a class or an if block, with or without a
\* docstring line, nested in an earlier statement (parent) or in the module (0).
\* A block without docstring and without nested statement holds one pass line.
ClassNames == {"A", "B"}
StmtShapes ==
  {[kind |-> k, name |-> IF k = "def" THEN "f" ELSE "g", doc |-> d]
     : k \in {"def", "async"}, d \in 0..1}
    \cup {[kind |-> "class", name |-> c, doc |-> d] : c \in ClassNames, d \in 0..1}
    \cup {[kind |-> "if", name |-> "", doc |-> 0]}

Stmt(shape, parent) ==
  [kind |-> shape.kind, name |-> shape.name, doc |-> shape.doc, parent |-> parent]

RECURSIVE AncestorsOf(_, _)
AncestorsOf(t, i) ==
  IF t[i].parent = 0 THEN {} ELSE {t[i].parent} \cup AncestorsOf(t, t[i].parent)

\* source order: a statement is nested in the module, in the statement before
\* it, or in a block that statement is nested in
ValidTree(t) ==
  \A i \in 1..Len(t) :
    /\ t[i].parent < i
    /\ i > 1 => t[i].parent \in {0, i - 1} \cup AncestorsOf(t, i - 1)

Trees ==
  UNION {{t \in [1..n -> {Stmt(s, p) : s \in StmtShapes, p \in 0..(MaxNodes - 1)}] :
            ValidTree(t)} : n \in 0..MaxNodes}

\* with a prologue the file starts with a docstring line and an import line
Prologues == {0, 2}

Depth(t, i) == Cardinality(AncestorsOf(t, i))
HasNested(t, i) == \E j \in 1..Len(t) : t[j].parent = i
NeedsPass(t, i) == t[i].doc = 0 /\ ~HasNested(t, i)

\* the lines of statement i itself: header, docstring, pass
OwnLines(t, i) == 1 + t[i].doc + (IF NeedsPass(t, i) THEN 1 ELSE 0)

RECURSIVE LinesBefore(_, _)
LinesBefore(t, i) == IF i = 1 THEN 0 ELSE LinesBefore(t, i - 1) + OwnLines(t, i - 1)

\* ast: lineno and end_lineno of statement i
Lineno(t, prologue, i) == prologue + LinesBefore(t, i) + 1
LastNested(t, i) ==
  LET below == {j \in 1..Len(t) : i \in AncestorsOf(t, j)} \cup {i}
  IN CHOOSE j \in below : \A k \in below : k <= j
EndLineno(t, prologue, i) ==
  Lineno(t, prologue, LastNested(t, i)) + OwnLines(t, LastNested(t, i)) - 1

DocLine == "\"\"\"doc\"\"\""
HeaderLine(stmt) ==
  CASE stmt.kind = "def" -> <<"def ", stmt.name, "():">>
    [] stmt.kind = "async" -> <<"async def ", stmt.name, "():">>
    [] stmt.kind = "class" -> <<"class ", stmt.name, ":">>
    [] OTHER -> <<"if x:">>

\* the text, one record per line: its indentation depth and its code
RECURSIVE StmtLines(_, _)
StmtLines(t, i) ==
  IF i > Len(t)
  THEN << >>
  ELSE << [indent |-> Depth(t, i), code |-> HeaderLine(t[i])] >>
         \o (IF t[i].doc = 1
             THEN << [indent |-> Depth(t, i) + 1, code |-> <<DocLine>>] >> ELSE << >>)
         \o (IF NeedsPass(t, i)
             THEN << [indent |-> Depth(t, i) + 1, code |-> <<"pass">>] >> ELSE << >>)
         \o StmtLines(t, i + 1)

SourceLines(t, prologue) ==
  (IF prologue = 0
   THEN << >>
   ELSE << [indent |-> 0, code |-> <<DocLine>>],
           [indent |-> 0, code |-> <<"import os">>] >>)
    \o StmtLines(t, 1)

NodeType(kind) ==
  CASE kind = "def" -> "FunctionDef"
    [] kind = "async" -> "AsyncFunctionDef"
    [] kind = "class" -> "ClassDef"
    [] OTHER -> "If"

\* ast.walk is breadth first: the statements by depth, then in source order
RECURSIVE WalkFrom(_, _)
WalkFrom(t, depth) ==
  IF depth >= Len(t)
  THEN << >>
  ELSE SelectSeq([i \in 1..Len(t) |-> i], LAMBDA i : Depth(t, i) = depth)
         \o WalkFrom(t, depth + 1)

\* ast.parse and split("\n") on the text of a tree; the text ends in a newline
PySource(t, prologue) ==
  LET lines == SourceLines(t, prologue)
      order == WalkFrom(t, 0)
  IN [text |-> lines,
      nlines |-> Len(lines) + 1,
      syntax_ok |-> TRUE,
      module_doc |-> prologue # 0,
      quote_lines |-> {k \in 1..Len(lines) : lines[k].code = <<DocLine>>},
      imports |-> IF prologue = 0 THEN << >>
                  ELSE << [lineno |-> 2, end_lineno |-> 2] >>,
      nodes |-> [k \in 1..Len(order) |->
                   LET i == order[k]
                   IN StmtNode(NodeType(t[i].kind), t[i].name, i, t[i].parent,
                               Lineno(t, prologue, i), EndLineno(t, prologue, i),
                               IF t[i].doc = 1 THEN Lineno(t, prologue, i) + 1 ELSE 0,
                               IF t[i].doc = 1 THEN "doc" ELSE "")]]

\* a text ast.parse rejects
SrcBroken ==
  [text |-> << [indent |-> 0, code |-> <<"def f(:">>] >>, nlines |-> 2, syntax_ok |-> FALSE, module_doc |-> FALSE,
   quote_lines |-> {}, imports |-> << >>, nodes |-> << >>]

PySources ==
  {[tree |-> t, prologue |-> p, content |-> PySource(t, p)]
     : t \in Trees, p \in Prologues}
    \cup {[tree |-> << >>, prologue |-> 0, content |-> SrcBroken]}

\* one chunk_python_file call
ChunkPythonFileCall ==
  /\ lastCall = NoLibCall
  /\ \E src \in PySources :
       lastCall' = [fn |-> "chunk_python_file", tree |-> src.tree,
                    prologue |-> src.prologue, content |-> src.content,
                    result |-> ChunkPythonFile(src.content, PathAPy)]
  /\ UNCHANGED <<janitorVars, trackerVars, indexVars, connVars, sparseVars, serverVars>>

ChunkerNext == ChunkPythonFileCall

(***************************************************************************)
(* QdrantSettings construction                                             *)
(***************************************************************************)
\* a str | None field: None, or a string that may be empty
PyNone == [is_none |-> TRUE, value |-> ""]
PyStr(s) == [is_none |-> FALSE, value |-> s]
\* bool(x) of a str | None value: neither None nor ""
NonEmpty(x) == ~x.is_none /\ x.value # ""

\* variant: only a location conflicts with local_path
CheckLocalPathConflict_IgnoresApiKey(self) ==
  NonEmpty(self.local_path) /\ ~self.location.is_none

\* check_local_path_conflict raises
CheckLocalPathConflict(self) ==
  NonEmpty(self.local_path) /\ (~self.location.is_none \/ ~self.api_key.is_none)

\* QdrantSettings(...): the fields, then the model validator
QdrantSettings(location, api_key, local_path, search_limit, read_only) ==
  LET self == [location |-> location, api_key |-> api_key, local_path |-> local_path,
               collection_name |-> PyNone, search_limit |-> search_limit,
               read_only |-> read_only]
  IN IF CheckLocalPathConflict(self)
     THEN [ok |-> FALSE, error |-> "ValueError"]
     ELSE [ok |-> TRUE, settings |-> self]

Locations == {PyNone, PyStr(""), PyStr("http://localhost:6333")}
ApiKeys == {PyNone, PyStr(""), PyStr("test_api_key")}
LocalPaths == {PyNone, PyStr(""), PyStr("/path/to/local/qdrant")}
SearchLimitSettings == {10, 15}

\* one construction of the settings
QdrantSettingsCall ==
  /\ lastCall = NoLibCall
  /\ \E location \in Locations, api_key \in ApiKeys, local_path \in LocalPaths,
        search_limit \in SearchLimitSettings, read_only \in BOOLEAN :
       lastCall' = [fn |-> "QdrantSettings", location |-> location,
                    api_key |-> api_key, local_path |-> local_path,
                    search_limit |-> search_limit, read_only |-> read_only,
                    result |-> QdrantSettings(location, api_key, local_path,
                                              search_limit, read_only)]
  /\ UNCHANGED <<janitorVars, trackerVars, indexVars, connVars, sparseVars, serverVars>>

SettingsNext == QdrantSettingsCall

(***************************************************************************)
(* index_codebase with the analysis tasks of a batch as separate steps     *)
(***************************************************************************)
\* asyncio.gather runs one process_file task per file of the batch.  A task
\* has no await and runs to its end once started; the order in which the event
\* loop starts the tasks is left open here.
Pending == [pending |-> TRUE]

BatchFiles == [path : {PathAPy, PathPy(1)}, content : {SrcOneLine, SrcTwoFuncs}]
BatchMappings ==
  UNION {{f \in [1..n -> BatchFiles] : \A i, j \in 1..n : i # j => f[i].path # f[j].path}
           : n \in 0..MaxFiles}

IndexBatch == IndexCodebaseOf(BatchMappings)

BatchOf(fs, start) == SubSeq(fs, start + 1, Min(start + BatchSize, Len(fs)))

\* tasks = [process_file(..) for .. in enumerate(batch)]
CreateTasks ==
  /\ idxPc = "gather"
  /\ results' = [k \in 1..Len(BatchOf(files, batchStart)) |-> Pending]
  /\ idxPc' = "analyze"
  /\ UNCHANGED <<runs, files, batchStart, cursor, seen_hashes, indexed_count,
                 chunk_count, points, idxReturn, pointsAtStart, prevFiles, trackerVars,
                 janitorVars, connVars, libVars, sparseVars, serverVars>>

\* one process_file task runs
AnalyzeTask ==
  /\ idxPc = "analyze"
  /\ \E k \in 1..Len(results) :
       /\ results[k] = Pending
       /\ LET r == ProcessFile(file_hashes, last_check, clock,
                               BatchOf(files, batchStart)[k])
          IN /\ results' = [results EXCEPT ![k] =
                              [skipped |-> r.skipped, chunks |-> r.chunks,
                               file_content |-> r.file_content]]
             /\ file_hashes' = r.file_hashes
             /\ last_check' = r.last_check
  /\ UNCHANGED <<idxPc, runs, files, batchStart, cursor, seen_hashes, indexed_count,
                 chunk_count, points, idxReturn, pointsAtStart, prevFiles, clock,
                 trackerLast, trackerPrev, janitorVars, connVars, libVars, sparseVars, serverVars>>

\* results = await asyncio.gather(*tasks) returns when every task has ended
AwaitGather ==
  /\ idxPc = "analyze"
  /\ \A k \in 1..Len(results) : results[k] # Pending
  /\ clock' = clock + 1
  /\ cursor' = [file |-> 1, chunk |-> 1]
  /\ idxPc' = "store"
  /\ UNCHANGED <<runs, files, results, batchStart, seen_hashes, indexed_count,
                 chunk_count, points, idxReturn, pointsAtStart, prevFiles, file_hashes,
                 last_check, trackerLast, trackerPrev, janitorVars, connVars, libVars, sparseVars, serverVars>>

\* await self.qdrant_connector.store(..) raises (embedding or storage error):
\* nothing in index_codebase catches it, the call ends with the exception
StoreRaises ==
  /\ idxPc = "store"
  /\ cursor.file <= Len(results)
  /\ ~results[cursor.file].skipped
  /\ cursor.chunk <= Len(results[cursor.file].chunks)
  /\ ~IsDuplicate(results[cursor.file].chunks[cursor.chunk], seen_hashes)
  /\ seen_hashes' = seen_hashes \cup {results[cursor.file].chunks[cursor.chunk].hash}
  /\ idxPc' = "failed"
  /\ idxReturn' = [status |-> "raised", indexed |-> indexed_count,
                   chunks |-> chunk_count, total |-> Len(files)]
  /\ UNCHANGED <<runs, files, results, batchStart, cursor, indexed_count, chunk_count,
                 points, pointsAtStart, prevFiles, trackerVars, janitorVars, connVars,
                 libVars, sparseVars, serverVars>>

FailingNext ==
  \/ IndexBatch
  \/ GatherBatch
  \/ CountSkippedFile
  \/ StoreChunk
  \/ StoreRaises
  \/ NextFile
  \/ FinishBatch
  \/ ReturnIndexed

BatchNext ==
  \/ IndexBatch
  \/ CreateTasks
  \/ AnalyzeTask
  \/ AwaitGather
  \/ CountSkippedFile
  \/ StoreChunk
  \/ NextFile
  \/ FinishBatch
  \/ ReturnIndexed

(***************************************************************************)
(* BM25SparseEmbedder                                                      *)
(***************************************************************************)
\* words are sequences of characters; a text is a sequence of words, the
\* matches of \w+
WordAb == <<"a", "b">>
WordAbUpper == <<"A", "b">>
WordCd == <<"c", "d">>
WordThe == <<"t", "h", "e">>
WordIs == <<"i", "s">>
STOP_WORDS == {WordThe, WordIs, <<"a">>, <<"a", "n">>, <<"o", "f">>}

\* tokenize: lower case, stop words of three or more characters removed
Tokenize(text) ==
  SelectSeq([k \in 1..Len(text) |-> LowerStr(text[k])],
            LAMBDA t : t \notin STOP_WORDS \/ Len(t) < 3)

TermsOf(tokens) == {tokens[k] : k \in 1..Len(tokens)}
\* Counter(tokens): the distinct terms in the order of their first occurrence
TermsInOrder(tokens) ==
  LET first == {k \in 1..Len(tokens) : \A j \in 1..(k - 1) : tokens[j] # tokens[k]}
  IN SelectSeq([k \in 1..Len(tokens) |-> IF k \in first THEN <<tokens[k]>> ELSE << >>],
               LAMBDA x : x # << >>)
TermFreq(tokens, term) == Cardinality({k \in 1..Len(tokens) : tokens[k] = term})

\* get_term_index over the terms of the texts, in the order they are scored
RECURSIVE AddTerms(_, _)
AddTerms(vc, tokens) ==
  IF tokens = << >> THEN vc
  ELSE AddTerms(IF tokens[1] \in DOMAIN vc THEN vc
                ELSE Put(vc, tokens[1], Cardinality(DOMAIN vc)),
                Tail(tokens))

\* self.df[term] = self.df.get(term, 0) + 1, once per text that holds the term
UpdateDf(old, all_tokens) ==
  LET terms == UNION {TermsOf(all_tokens[k]) : k \in 1..Len(all_tokens)}
  IN [t \in DOMAIN old \cup terms |->
        Get(old, t, 0)
          + Cardinality({k \in 1..Len(all_tokens) : t \in TermsOf(all_tokens[k])})]

\* compute_bm25_score(..) > 0: the term-frequency factor is positive, so the
\* sign is that of idf = log((N - df + 0.5) / (df + 0.5) + 1), positive exactly
\* when N - df + 0.5 > 0
ScoreIsPositive(N, doc_freq) == 2 * (N - doc_freq) + 1 > 0

\* the sparse vector of one text: an entry per term with a positive score
SparseVector(tokens, vc, N, dfs) ==
  LET terms == TermsInOrder(tokens)
      entries == [k \in 1..Len(terms) |->
                    [index |-> vc[terms[k][1]], term |-> terms[k][1],
                     term_freq |-> TermFreq(tokens, terms[k][1]),
                     doc_length |-> Len(tokens),
                     doc_freq |-> Get(dfs, terms[k][1], 1)]]
  IN SelectSeq(entries, LAMBDA e : ScoreIsPositive(N, e.doc_freq))

SparseTexts ==
  {<< >>, <<WordAbUpper, WordThe>>, <<WordAb, WordCd>>, <<WordIs, WordCd, WordCd>>}
TextBatches == UNION {[1..n -> SparseTexts] : n \in 0..MaxTexts}

\* embed_documents(texts)
EmbedDocumentsBatch ==
  /\ sparseCalls < MaxEmbeds
  /\ sparseCalls' = sparseCalls + 1
  /\ \E texts \in TextBatches :
       LET all_tokens == [k \in 1..Len(texts) |-> Tokenize(texts[k])]
           total_length == Len(Flatten(all_tokens))
           new_df == UpdateDf(df, all_tokens)
           new_vocab == AddTerms(vocab, Flatten(all_tokens))
       IN /\ doc_count' = Len(texts)
          /\ avg_doc_length' = [num |-> total_length, den |-> Max(Len(texts), 1)]
          /\ df' = new_df
          /\ vocab' = new_vocab
          /\ sparseLast' =
               [texts |-> texts, tokens |-> all_tokens,
                vectors |-> [k \in 1..Len(texts) |->
                               SparseVector(all_tokens[k], new_vocab, Len(texts),
                                            new_df)]]
  /\ UNCHANGED <<janitorVars, trackerVars, indexVars, connVars, libVars, serverVars>>

NoSparseCall == [texts |-> << >>, tokens |-> << >>, vectors |-> << >>]

\* BM25SparseEmbedder.__init__
SparseInit ==
  /\ vocab = EmptyMeta
  /\ doc_count = 0
  /\ avg_doc_length = [num |-> 0, den |-> 1]
  /\ df = EmptyMeta
  /\ sparseCalls = 0
  /\ sparseLast = NoSparseCall

SparseNext == EmbedDocumentsBatch

(***************************************************************************)
(* The janitor over a collection that index_codebase filled                *)
(***************************************************************************)
\* a point as index_codebase stores it for a function chunk of a.py: the
\* workspace is under the key "workspace", the timestamp is the store time
StoredChunk(content, name, target_workspace, ts, vector) ==
  [document |-> content,
   metadata |-> [type |-> "code_function", category |-> "codebase",
                 workspace |-> target_workspace, file_path |-> "a.py",
                 language |-> "python", chunk_type |-> "function",
                 name |-> name, timestamp |-> ts],
   vector |-> vector]

\* f and g of a.py indexed under alpha three days ago, the same f and a
\* similar g indexed under beta half a day ago
CodebaseTemplates ==
  << StoredChunk(DocChunkF, "f", WsAlpha, Ago(6), V1),
     StoredChunk(DocChunkF, "f", WsBeta, Ago(1), V1),
     StoredChunk(DocChunkG, "g", WsAlpha, Ago(6), VFar),
     StoredChunk(DocChunkG, "g", WsBeta, Ago(1), V2) >>

CodebaseStores ==
  UNION {{[i \in 1..n |-> CodebaseTemplates[t[i]]] : t \in [1..n -> 1..Len(CodebaseTemplates)]}
           : n \in 1..MaxMem}

(***************************************************************************)
(* The janitor over memories of one group whose vectors form a chain:      *)
(* V1 and V2 both resemble VM at 0.90 or more, and each other at 0.89      *)
(***************************************************************************)
ChainVectors == {V1, VM, V2}
ChainStamps == {Ago(20), Ago(16), Ago(15)}

ChainPoints ==
  {[document |-> DocDecision,
    metadata |-> [category |-> "decision", workspace_name |-> WsAlpha, timestamp |-> ts],
    vector |-> v] : v \in ChainVectors, ts \in ChainStamps}

ChainStores == UNION {[1..n -> ChainPoints] : n \in 1..MaxMem}

(***************************************************************************)
(* QdrantMCPServer: the tools it registers (mcp_server.py)                 *)
(***************************************************************************)
\* the tools added behind `if not self.qdrant_settings.read_only`
WritingTools == {"spot-store", "spot-update-files", "spot-index-status"}

\* setup_tools and setup_memory_tools: the names passed to self.tool
RegisteredTools(readOnly) ==
  {"spot-find", "spot-index-codebase", "spot-find-code", "spot-list-workspaces"}
    \cup (IF readOnly THEN {} ELSE WritingTools)

\* a client calls spot-index-codebase
ToolIndexCodebase ==
  /\ "spot-index-codebase" \in RegisteredTools(qdrant_settings.read_only)
  /\ IndexCodebaseOf(BatchMappings)

\* a client calls spot-update-files
ToolUpdateFiles ==
  /\ "spot-update-files" \in RegisteredTools(qdrant_settings.read_only)
  /\ UpdateFiles

\* QdrantSettings.read_only defaults to False
ServerInit == qdrant_settings = [read_only |-> FALSE]

ServerNext ==
  \/ ToolIndexCodebase
  \/ ToolUpdateFiles
  \/ GatherBatch
  \/ CountSkippedFile
  \/ StoreChunk
  \/ NextFile
  \/ FinishBatch
  \/ ReturnIndexed

vars == <<janitorVars, trackerVars, indexVars, connVars, libVars, sparseVars, serverVars>>

\* the janitor when every storage call succeeds
Init == JanitorInit(0) /\ TrackerInit /\ IndexInit /\ ConnInit /\ collExists /\ LibInit /\ SparseInit /\ ServerInit
Next == JanitorNext
Spec == Init /\ [][Next]_vars

\* the janitor when the store may fail up to MaxFaults storage calls
InitFail == JanitorInit(MaxFaults) /\ TrackerInit /\ IndexInit /\ ConnInit /\ collExists /\ LibInit /\ SparseInit /\ ServerInit
SpecFail == InitFail /\ [][Next]_vars

\* the change tracker under any sequence of calls
InitTracker == JanitorIdle /\ TrackerInit /\ IndexInit /\ ConnInit /\ collExists /\ LibInit /\ SparseInit /\ ServerInit
SpecTracker == InitTracker /\ [][TrackerNext]_vars

\* index_codebase called repeatedly on one server instance
InitIndex == JanitorIdle /\ TrackerInit /\ IndexInit /\ ConnInit /\ collExists /\ LibInit /\ SparseInit /\ ServerInit
SpecIndex == InitIndex /\ [][IndexNext]_vars

\* two callers of one connector, interleaved at every await
InitConn == JanitorIdle /\ TrackerInit /\ IndexInit /\ ConnInit /\ LibInit /\ SparseInit /\ ServerInit
SpecConn == InitConn /\ [][ConnNext]_vars

\* the library functions start from the same idle server
InitLib == JanitorIdle /\ TrackerInit /\ IndexInit /\ ConnInit /\ collExists /\ LibInit /\ SparseInit /\ ServerInit

\* rerank and search under any arguments
SpecRerank == InitLib /\ [][RerankNext]_vars

\* make_filter under any field declarations and values
SpecFilter == InitLib /\ [][FilterNext]_vars

\* the health score of one memory under any metadata
SpecHealth == InitLib /\ [][HealthNext]_vars

\* update_files called repeatedly on one server instance
SpecUpdate == InitLib /\ [][UpdateNext]_vars

\* chunk_python_file calls on Python sources
SpecChunker == InitLib /\ [][ChunkerNext]_vars

\* constructions of QdrantSettings
SpecSettings == InitLib /\ [][SettingsNext]_vars

\* index_codebase with the analysis tasks of a batch in any order
SpecBatch == InitIndex /\ [][BatchNext]_vars

\* index_codebase whose store calls may raise
SpecIndexFail == InitIndex /\ [][FailingNext]_vars

\* embed_documents called repeatedly on one sparse embedder
SpecSparse == InitLib /\ [][SparseNext]_vars

\* the janitor over a collection of indexed code chunks
InitCodebase == JanitorInitOf(CodebaseStores, 0) /\ TrackerInit /\ IndexInit /\ ConnInit /\ collExists /\ LibInit /\ SparseInit /\ ServerInit
SpecCodebase == InitCodebase /\ [][JanitorNext]_vars

\* the janitor over chains of similar memories of one group
InitChain == JanitorInitOf(ChainStores, 0) /\ TrackerInit /\ IndexInit /\ ConnInit /\ collExists /\ LibInit /\ SparseInit /\ ServerInit
SpecChain == InitChain /\ [][JanitorNext]_vars

\* a server started with either value of QDRANT_READ_ONLY, its tools called
InitServer == JanitorIdle /\ TrackerInit /\ IndexInit /\ ConnInit /\ collExists /\ LibInit /\ SparseInit /\ qdrant_settings \in [read_only : BOOLEAN]
SpecServer == InitServer /\ [][ServerNext]_vars

(***************************************************************************)
(* Claims about the janitor                                                *)
(***************************************************************************)
\* the Entry the janitor builds for point id of collection st
EntryOf(st, id) ==
  [id |-> id, content |-> st[id].document, metadata |-> st[id].metadata,
   vector |-> ExtractVector(st[id].vector)]

\* the creation timestamp of a stored point, 0 when it has none
StoredTs(st, id) == Get(st[id].metadata, "timestamp", 0)

\* a and b (a scanned before b) are near-duplicates of one (category, workspace_name) group
NearDuplicates(st, a, b) ==
  /\ a < b
  /\ Get(st[a].metadata, "category", "memory") = Get(st[b].metadata, "category", "memory")
  /\ Get(st[a].metadata, "workspace_name", <<>>) = Get(st[b].metadata, "workspace_name", <<>>)
  /\ SimilarityAtLeast(st[a].vector.values, st[b].vector.values, SimilarityThresholdPct)

\* of a pair scanned in the order a, b: the one with the larger timestamp, the
\* first-scanned one when the timestamps are equal; and the other one
NewerOf(st, a, b) == IF StoredTs(st, a) >= StoredTs(st, b) THEN a ELSE b
OlderOf(st, a, b) == IF StoredTs(st, a) >= StoredTs(st, b) THEN b ELSE a

Lo(a, b) == IF a < b THEN a ELSE b
Hi(a, b) == IF a < b THEN b ELSE a

\* id is the newest memory of its group: no other member has a larger
\* timestamp, nor an equal one and an earlier place in the scan
NewestOfGroup(st, id) ==
  \A o \in DOMAIN st \ {id} :
    (/\ Get(st[o].metadata, "category", "memory") = Get(st[id].metadata, "category", "memory")
     /\ Get(st[o].metadata, "workspace_name", <<>>)
          = Get(st[id].metadata, "workspace_name", <<>>))
    => \/ StoredTs(st, id) > StoredTs(st, o)
       \/ StoredTs(st, id) = StoredTs(st, o) /\ id < o

\* C1 as claimed: for every near-duplicate pair of a group, when the cycle has
\* returned exactly one of the two is still stored, the newer one; and the
\* newest memory of a group is not deleted by the deduplication phase.
C1_ExactlyOneSurvives ==
  pc = "done" =>
    /\ \A a, b \in DOMAIN dedupSnap :
         NearDuplicates(dedupSnap, a, b) =>
           /\ NewerOf(dedupSnap, a, b) \in DOMAIN store
           /\ OlderOf(dedupSnap, a, b) \notin DOMAIN store
    /\ \A id \in DOMAIN dedupSnap :
         NewestOfGroup(dedupSnap, id) => [id |-> id, reason |-> "duplicate"] \notin delLog

\* C1 amended: when the deduplication phase has returned, the older member of
\* every near-duplicate pair is no longer stored (so at most one of the two is),
\* the newer member is still stored unless it is itself the older member of
\* another near-duplicate pair, and the newest memory of a group is still stored.
C1_OlderDeletedNewestKept ==
  (lastPhase = "dedup" /\ pc = "conflicts") =>
    /\ \A a, b \in DOMAIN snap :
         NearDuplicates(snap, a, b) =>
           /\ OlderOf(snap, a, b) \notin DOMAIN store
           /\ \/ NewerOf(snap, a, b) \in DOMAIN store
              \/ \E c \in DOMAIN snap \ {a, b} :
                   LET n == NewerOf(snap, a, b)
                   IN /\ NearDuplicates(snap, Lo(n, c), Hi(n, c))
                      /\ OlderOf(snap, Lo(n, c), Hi(n, c)) = n
    /\ \A id \in DOMAIN snap : NewestOfGroup(snap, id) => id \in DOMAIN store

\* a near-duplicate pair with different timestamps went through the phase:
\* the newer one is stored, the older one is not
C1_Witness ==
  /\ lastPhase = "dedup" /\ pc = "conflicts"
  /\ \E a, b \in DOMAIN snap :
       /\ NearDuplicates(snap, a, b)
       /\ StoredTs(snap, a) < StoredTs(snap, b)
       /\ b \in DOMAIN store
       /\ a \notin DOMAIN store

\* C2 as claimed: when the cycle has returned, every memory that was kept as
\* the newer member of a duplicate pair is stored with a merged_count at least
\* 1 larger than when the cycle started, and with a last_merge timestamp.
C2_MergedCountPersisted ==
  pc = "done" =>
    \A id \in keepers \cap DOMAIN store :
      /\ Get(store[id].metadata, "merged_count", 0)
           >= Get(cycleStart[id].metadata, "merged_count", 0) + 1
      /\ "last_merge" \in DOMAIN store[id].metadata

\* a, b and c are three memories of one topic, pairwise at least 0.75 similar,
\* with timestamps pairwise more than one day apart
ConflictingTriple(st, a, b, c) ==
  /\ a # b /\ a # c /\ b # c
  /\ \A x, y \in {a, b, c} :
       /\ Get(st[x].metadata, "category", "memory") = Get(st[y].metadata, "category", "memory")
       /\ Get(st[x].metadata, "workspace_name", GlobalWs)
            = Get(st[y].metadata, "workspace_name", GlobalWs)
       /\ x # y =>
            /\ SimilarityAtLeast(st[x].vector.values, st[y].vector.values, TopicThresholdPct)
            /\ Abs(StoredTs(st, x) - StoredTs(st, y)) > Day

\* the members of the topic of a
TopicOf(st, a) ==
  {x \in DOMAIN st :
     /\ Get(st[x].metadata, "category", "memory") = Get(st[a].metadata, "category", "memory")
     /\ Get(st[x].metadata, "workspace_name", GlobalWs)
          = Get(st[a].metadata, "workspace_name", GlobalWs)}

\* C3: when resolve_conflicts has returned, of three pairwise conflicting
\* memories of one topic the two older ones are no longer stored, in every scan
\* order; and when the topic holds these three only, the newest one is stored.
C3_OnlyNewestOfThree ==
  (lastPhase = "conflicts" /\ pc = "stale") =>
    \A a, b, c \in DOMAIN snap :
      (/\ ConflictingTriple(snap, a, b, c)
       /\ StoredTs(snap, a) > StoredTs(snap, b)
       /\ StoredTs(snap, a) > StoredTs(snap, c))
      => /\ b \notin DOMAIN store
         /\ c \notin DOMAIN store
         /\ TopicOf(snap, a) = {a, b, c} => a \in DOMAIN store

C3_Witness ==
  /\ lastPhase = "conflicts" /\ pc = "stale"
  /\ \E a, b, c \in DOMAIN snap :
       /\ ConflictingTriple(snap, a, b, c)
       /\ StoredTs(snap, a) > StoredTs(snap, b)
       /\ StoredTs(snap, a) > StoredTs(snap, c)
       /\ a > b
       /\ DOMAIN store \cap {a, b, c} = {a}

\* the claim's age of a memory: last_accessed or, without one, the timestamp
HasAge(meta) == "last_accessed" \in DOMAIN meta \/ "timestamp" \in DOMAIN meta
AgeStamp(meta) ==
  IF "last_accessed" \in DOMAIN meta THEN meta["last_accessed"] ELSE meta["timestamp"]

\* C4: when archive_stale_memories has returned, a memory that has a
\* last_accessed or a timestamp is deleted exactly when that stamp is older
\* than now minus the retention window and its access_count is below the minimum.
C4_StaleIffOldAndUnused ==
  (lastPhase = "stale" /\ pc = "health") =>
    \A id \in DOMAIN snap :
      HasAge(snap[id].metadata) =>
        (id \notin DOMAIN store <=>
           /\ AgeStamp(snap[id].metadata) < Now - StaleThresholdDays * Day
           /\ Get(snap[id].metadata, "access_count", 0) < MinAccessCount)

\* an old unused memory was deleted and an equally old used one was kept
C4_Witness ==
  /\ lastPhase = "stale" /\ pc = "health"
  /\ \E d, k \in DOMAIN snap :
       /\ HasAge(snap[d].metadata) /\ HasAge(snap[k].metadata)
       /\ AgeStamp(snap[d].metadata) < Now - StaleThresholdDays * Day
       /\ AgeStamp(snap[k].metadata) <= AgeStamp(snap[d].metadata)
       /\ Get(snap[k].metadata, "access_count", 0) >= MinAccessCount
       /\ d \notin DOMAIN store
       /\ k \in DOMAIN store

\* C5 as claimed: once a scroll, retrieve, upsert or delete call has failed in
\* a cycle, the cycle has ended with the exception: no later phase runs and no
\* report is returned.
C5_AnyFailureAborts ==
  faultKind \in {"scroll", "retrieve", "upsert", "delete"} =>
    (pc = "failed" /\ report = NoReport)

HealthKeys == {"health_score", "health_updated_at"}

SameButHealth(m1, m2) ==
  /\ DOMAIN m1 \ HealthKeys = DOMAIN m2 \ HealthKeys
  /\ \A k \in DOMAIN m1 \ HealthKeys : m1[k] = m2[k]

\* C6: a cycle that starts right after a cycle that returned its report, with
\* the same clock, deletes nothing, fixes nothing and leaves every stored field
\* but health_score and health_updated_at as it was.
C6_SecondCycleChangesNothing ==
  (pc = "done" /\ afterClean) =>
    /\ DOMAIN store = DOMAIN cycleStart
    /\ delLog = {}
    /\ \A id \in DOMAIN store :
         /\ store[id].document = cycleStart[id].document
         /\ store[id].vector = cycleStart[id].vector
         /\ SameButHealth(store[id].metadata, cycleStart[id].metadata)
    /\ \A c \in DOMAIN stats \ {"health_updated"} : stats[c] = statsStart[c]

\* the second cycle returned after a first one that fixed, merged and superseded
C6_Witness ==
  /\ pc = "done" /\ afterClean
  /\ statsStart.workspace_fixed > 0
  /\ statsStart.duplicates_merged > 0
  /\ statsStart.conflicts_resolved > 0
  /\ DOMAIN store # {}

(***************************************************************************)
(* Claims about the change tracker                                         *)
(***************************************************************************)
SameFile(a, b) == a.path = b.path /\ a.content.text = b.content.text

\* C7: has_changed(path, content) returns True exactly when the path is
\* indexable and the hash on record for it is absent or differs from the hash
\* of content, after any sequence of has_changed, mark_indexed, remove_file and
\* clear calls; so it is True the first time an indexable path is seen, and
\* False on the next call with identical content.
C7_HasChangedIffNewOrDifferent ==
  /\ trackerLast.op = "has_changed" =>
       (trackerLast.result <=>
          /\ IsIndexable(trackerLast.path)
          /\ \/ trackerLast.path \notin DOMAIN trackerLast.before
             \/ trackerLast.before[trackerLast.path] # ComputeHash(trackerLast.content))
  /\ (/\ trackerLast.op = "has_changed"
      /\ IsIndexable(trackerLast.path)
      /\ trackerPrev.op = "none") => trackerLast.result
  /\ (/\ trackerLast.op = "has_changed"
      /\ trackerPrev.op = "has_changed"
      /\ SameFile(trackerPrev, trackerLast)) => ~trackerLast.result

\* an indexable path reported changed, then unchanged on the next call with
\* the same content
C7_Witness ==
  /\ trackerPrev.op = "has_changed"
  /\ trackerPrev.result
  /\ trackerLast.op = "has_changed"
  /\ SameFile(trackerPrev, trackerLast)
  /\ ~trackerLast.result

(***************************************************************************)
(* Claims about index_codebase                                             *)
(***************************************************************************)
\* the current call has the files mapping of the call that completed before it
SameFilesAgain == prevFiles.valid /\ prevFiles.files = files

\* C8: when index_codebase is called again with the files mapping of the call
\* that completed before it, it stores no chunk, and the collection holds as
\* many points after the call as before it.
C8_ReindexStoresNothing ==
  SameFilesAgain => (chunk_count = 0 /\ Len(points) = pointsAtStart)

\* a second call that returned, with the mapping of a first call that stored chunks
C8_Witness ==
  /\ SameFilesAgain
  /\ idxPc = "done"
  /\ idxReturn.status = "indexed"
  /\ idxReturn.chunks = 0
  /\ pointsAtStart > 0
  /\ \E i \in 1..Len(files) : IsIndexable(files[i].path)

(***************************************************************************)
(* Claims about the connector                                              *)
(***************************************************************************)
\* C9: a search that finds the collection missing returns the empty list and
\* raises nothing, without calling the embedding provider and without issuing
\* create_collection, for every query and limit.
C9_SearchOfMissingCollectionIsEmpty ==
  \A t \in Callers :
    (task[t].op = "search" /\ task[t].saw = "no") =>
      /\ task[t].pc = "returned"
      /\ task[t].result = << >>
      /\ task[t].error = "none"
      /\ task[t].embeds = 0
      /\ task[t].creates = 0

\* a search returned from a collection that does not exist, and still does not
C9_Witness ==
  \E t \in Callers :
    /\ task[t].op = "search"
    /\ task[t].saw = "no"
    /\ task[t].pc = "returned"
    /\ ~collExists

\* C10: store calls that interleave on a missing collection create it once,
\* none of them fails because of the duplicate creation attempt, and each
\* returned call has stored its point; a store on a collection that exists
\* issues no create_collection.
C10_ConcurrentFirstUseIsSafe ==
  /\ createCalls <= 1
  /\ \A t \in Callers :
       task[t].op = "store" =>
         /\ task[t].pc # "failed"
         /\ task[t].pc = "returned" =>
              \E i \in 1..Len(collPoints) : collPoints[i].by = t
         /\ task[t].existedAtStart => task[t].creates = 0

(***************************************************************************)
(* Claims about the reranker and the search                                *)
(***************************************************************************)
\* the reranker of the last search is attached and reports itself available
RerankerAvailable == lastCall.reranker.attached /\ lastCall.reranker.enabled

\* the entries of the first n points of a ranked list, in the store's order
FirstEntries(ranked, n) ==
  [k \in 1..Min(n, Len(ranked)) |-> [content |-> ranked[k].document,
                                      metadata |-> ranked[k].metadata]]

\* C11: a search of an existing collection requests min(limit * 5, 100)
\* candidates when a reranker is attached and available and exactly limit
\* otherwise; it returns at most limit entries: in the order the reranker gave
\* when it is available and more than limit candidates came back, and
\* otherwise the first limit candidates in the store's similarity order
C11_SearchOverFetchesAndReranks ==
  lastCall.fn = "search" =>
    LET limit == lastCall.limit
        out == lastCall.out
        order == Rerank(TRUE, lastCall.query,
                        [i \in 1..Len(out.points) |-> out.points[i].document],
                        [i \in 1..Len(out.points) |-> out.points[i].score],
                        limit, lastCall.fails)
    IN /\ out.requested = IF RerankerAvailable
                          THEN (IF limit * 5 <= 100 THEN limit * 5 ELSE 100)
                          ELSE limit
       /\ Len(out.results) <= limit
       /\ IF RerankerAvailable /\ Len(out.points) > limit
          THEN /\ Len(out.results) = limit
               /\ \A k \in 1..limit :
                    out.results[k] = FirstEntries(out.points, Len(out.points))[order[k].index + 1]
          ELSE out.results = FirstEntries(lastCall.ranked, limit)

\* an available reranker moved a candidate that the store ranked lower to the top
C11_Witness ==
  /\ lastCall.fn = "search"
  /\ RerankerAvailable
  /\ ~lastCall.fails
  /\ lastCall.limit = 2
  /\ lastCall.out.requested = 10
  /\ Len(lastCall.out.points) = 3
  /\ Len(lastCall.out.results) = 2
  /\ lastCall.out.results[1].metadata = 3

\* the pairs of the last rerank call carry the original scores
CarriesOriginalScores ==
  \A k \in 1..Len(lastCall.result) :
    /\ lastCall.result[k].unit = 1
    /\ lastCall.result[k].score = lastCall.scores[lastCall.result[k].index + 1]

\* C14: rerank returns at most top_k (index, score) pairs, the indices are
\* distinct positions of the input lists, the pairs are in non-increasing order
\* of their final score, and a disabled reranker, an empty documents list or a
\* failing reranking step give the top_k largest original scores, sorted
C14_RerankContract ==
  lastCall.fn = "rerank" =>
    LET r == lastCall.result
        n == Len(lastCall.documents)
    IN /\ Len(r) <= lastCall.top_k
       /\ \A k \in 1..Len(r) : r[k].index \in 0..(n - 1)
       /\ \A j, k \in 1..Len(r) : j /= k => r[j].index /= r[k].index
       /\ \A k \in 1..(Len(r) - 1) : r[k].score >= r[k + 1].score
       /\ \A j, k \in 1..Len(r) : r[j].unit = r[k].unit
       /\ (~lastCall.enabled \/ n = 0 \/ lastCall.fails) =>
            /\ CarriesOriginalScores
            /\ Len(r) = Min(lastCall.top_k, n)
            /\ \A i \in 1..n :
                 (\A k \in 1..Len(r) : r[k].index /= i - 1) =>
                   \A k \in 1..Len(r) : r[k].score >= lastCall.scores[i]

\* an enabled reranker boosted a lower-scored document above a higher-scored one
C14_Witness ==
  /\ lastCall.fn = "rerank"
  /\ lastCall.enabled
  /\ ~lastCall.fails
  /\ Len(lastCall.documents) = 3
  /\ lastCall.top_k = 2
  /\ Len(lastCall.result) = 2
  /\ lastCall.scores[lastCall.result[1].index + 1]
       < lastCall.scores[lastCall.result[2].index + 1]

(***************************************************************************)
(* Claims about make_filter                                                *)
(***************************************************************************)
\* the (field_type, condition) pairs outside the supported matrix, for the
\* eight conditions a field can declare
OutsideMatrix(t, c) ==
  /\ c \in Conditions
  /\ \/ t = "float" /\ c \notin {">", ">=", "<", "<="}
     \/ t = "boolean" /\ c \notin {"==", "!="}
     \/ t = "keyword" /\ c \notin {"==", "!=", "any", "except"}

\* the last make_filter call raised and returned no filter
FilterRaised ==
  /\ lastCall.out.error /= "none"
  /\ lastCall.out.must = << >>
  /\ lastCall.out.must_not = << >>

\* the positions of values that hold a non-null value
NonNull(values) == {i \in 1..Len(values) : values[i].value /= None}

\* C12: a non-null value supplied for a field whose (field_type, condition)
\* pair is outside the supported matrix makes make_filter raise, and no filter
\* is returned
C12_UnsupportedPairRaises ==
  lastCall.fn = "make_filter" =>
    \A i \in NonNull(lastCall.values) :
      LET name == lastCall.values[i].name
      IN (/\ name \in DOMAIN lastCall.filterable_fields
          /\ OutsideMatrix(lastCall.filterable_fields[name].field_type,
                           lastCall.filterable_fields[name].condition))
         => FilterRaised

\* after a first value that is supported, a value for a float field declared
\* with == made the call raise
C12_Witness ==
  /\ lastCall.fn = "make_filter"
  /\ Len(lastCall.values) = 2
  /\ NonNull(lastCall.values) = {1, 2}
  /\ lastCall.values[1].name = "a"
  /\ lastCall.values[2].name = "b"
  /\ lastCall.filterable_fields["a"].field_type = "keyword"
  /\ lastCall.filterable_fields["a"].condition = "any"
  /\ lastCall.filterable_fields["b"].field_type = "float"
  /\ lastCall.filterable_fields["b"].condition = "=="
  /\ FilterRaised
  /\ lastCall.out.field = "b"

\* the conditions of the returned filter, must first
BuiltConditions == lastCall.out.must \o lastCall.out.must_not

\* some supplied name is not a filterable field
HasInvalidField ==
  \E i \in 1..Len(lastCall.values) :
    lastCall.values[i].name \notin DOMAIN lastCall.filterable_fields

\* some supplied value is null and its field is required
HasMissingRequired ==
  \E i \in 1..Len(lastCall.values) :
    /\ lastCall.values[i].name \in DOMAIN lastCall.filterable_fields
    /\ lastCall.values[i].value = None
    /\ lastCall.filterable_fields[lastCall.values[i].name].required

\* C13 as stated: an undeclared name and a null value for a required field
\* fail, a null value for an optional field adds nothing, and a returned filter
\* holds exactly one condition per supplied non-null value
C13_OneConditionPerNonNullValue ==
  lastCall.fn = "make_filter" =>
    /\ (HasInvalidField \/ HasMissingRequired) => FilterRaised
    /\ lastCall.out.error = "none" =>
         /\ Len(BuiltConditions) = Cardinality(NonNull(lastCall.values))
         /\ \A i \in NonNull(lastCall.values) :
              Cardinality({k \in 1..Len(BuiltConditions) :
                             BuiltConditions[k].key = <<"metadata", lastCall.values[i].name>>}) = 1

\* the positions of values that hold a non-null value for a field that
\* declares a condition
Filtering(values, fields) ==
  {i \in NonNull(values) : /\ values[i].name \in DOMAIN fields
                           /\ fields[values[i].name].condition /= NoCondition}

\* C13, amended: an undeclared name and a null value for a required field
\* fail; a returned filter holds exactly one condition per supplied non-null
\* value whose field declares a condition, and nothing for a null value or
\* for a field that declares no condition
C13_OneConditionPerFilteringValue ==
  lastCall.fn = "make_filter" =>
    /\ (HasInvalidField \/ HasMissingRequired) => FilterRaised
    /\ lastCall.out.error = "none" =>
         /\ Len(BuiltConditions)
              = Cardinality(Filtering(lastCall.values, lastCall.filterable_fields))
         /\ \A i \in 1..Len(lastCall.values) :
              Cardinality({k \in 1..Len(BuiltConditions) :
                             BuiltConditions[k].key = <<"metadata", lastCall.values[i].name>>})
                = IF i \in Filtering(lastCall.values, lastCall.filterable_fields)
                  THEN 1 ELSE 0

\* a filter was returned for two non-null values of which one is for a field
\* that declares no condition: it holds one condition
C13_Witness ==
  /\ lastCall.fn = "make_filter"
  /\ lastCall.out.error = "none"
  /\ Len(lastCall.values) = 2
  /\ NonNull(lastCall.values) = {1, 2}
  /\ lastCall.filterable_fields[lastCall.values[1].name].condition = NoCondition
  /\ lastCall.filterable_fields[lastCall.values[2].name].condition = "!="
  /\ Len(lastCall.out.must) = 0
  /\ Len(lastCall.out.must_not) = 1

(***************************************************************************)
(* Claims about the health score                                           *)
(***************************************************************************)
\* C15: the health score update_health_scores computes and writes into the
\* metadata is within 0..100 (0..100 * HealthDen in the model's unit) for
\* every creation timestamp, last_accessed and access_count
C15_HealthScoreWithinRange ==
  lastCall.fn = "update_health_scores" =>
    /\ lastCall.health >= 0
    /\ lastCall.health <= 100 * HealthDen
    /\ \A k \in 1..Len(lastCall.ops) :
         /\ lastCall.ops[k].metadata["health_score"] >= 0
         /\ lastCall.ops[k].metadata["health_score"] <= 100 * HealthDen

(***************************************************************************)
(* Claims about the janitor's in-place writes                              *)
(***************************************************************************)
\* a phase that writes in place has just run on the collection snap
InPlacePhaseRan ==
  \/ lastPhase = "workspace" /\ pc = "category"
  \/ lastPhase = "category" /\ pc = "dedup"
  \/ lastPhase = "health" /\ pc = "report"

\* the operations of the last in-place phase
InPlaceOps ==
  LET mems == GetAllMemories(snap)
  IN CASE lastPhase = "workspace" -> FixWorkspaceOps(mems)
       [] lastPhase = "category" -> FixCategoryOps(mems)
       [] lastPhase = "health" -> UpdateHealthOps(mems)
       [] OTHER -> << >>

\* the ids it wrote to, and the ids it deleted (the recategorization pass also
\* deletes memories it holds for garbage; a delete is not an in-place write)
WrittenIds == {InPlaceOps[k].id : k \in {j \in 1..Len(InPlaceOps) : InPlaceOps[j].kind /= "delete"}}
DeletedIds == {InPlaceOps[k].id : k \in {j \in 1..Len(InPlaceOps) : InPlaceOps[j].kind = "delete"}}

\* C16: a workspace fix, a recategorization and a health-score update leave
\* every point they write to under its id with the document text and the
\* vector values it had, changing its metadata only, and change no other
\* point (apart from the points the recategorization pass deletes)
C16_InPlaceWritesChangeMetadataOnly ==
  InPlacePhaseRan =>
    /\ DOMAIN store = DOMAIN snap \ DeletedIds
    /\ \A id \in DOMAIN store :
         /\ store[id].document = snap[id].document
         /\ ExtractVector(store[id].vector) = ExtractVector(snap[id].vector)
         /\ id \notin WrittenIds => store[id] = snap[id]

\* the workspace fix rewrote the metadata of one point and left another alone
C16_Witness ==
  /\ lastPhase = "workspace" /\ pc = "category"
  /\ \E a, b \in DOMAIN snap :
       /\ a \in WrittenIds
       /\ store[a].metadata /= snap[a].metadata
       /\ store[a].vector /= NoVector
       /\ b \notin WrittenIds

(***************************************************************************)
(* Claims about update_files                                               *)
(***************************************************************************)
\* the paths of the last update_files call that the tracker held no hash or
\* another hash for when the call started
DetectedChanged ==
  {lastCall.files[k].path : k \in
     {j \in 1..Len(lastCall.files) :
        /\ IsIndexable(lastCall.files[j].path)
        /\ RecordedHash(lastCall.before, lastCall.files[j].path)
             /= ComputeHash(lastCall.files[j].content)}}

\* the files the last update_files call stored chunks of
StoredFiles == {lastCall.stored[k].metadata.file_path : k \in 1..Len(lastCall.stored)}

\* C17: update_files chunks and stores at most 50 of the files it detects as
\* changed, its result carries the truncation notice exactly when it detected
\* more than 50, and when it detects none it stores nothing and reports that
\* the index is current
C17_UpdateIsCapped ==
  (lastCall.fn = "update_files" /\ lastCall.workspace_name /= << >>) =>
    /\ StoredFiles \subseteq DetectedChanged
    /\ Cardinality(StoredFiles) <= max_files
    /\ lastCall.result.indexed_count <= max_files
    /\ lastCall.result.notice <=> Cardinality(DetectedChanged) > max_files
    /\ DetectedChanged = {} =>
         /\ lastCall.stored = << >>
         /\ lastCall.result.status = "current"

\* of 51 changed files the first 50 were stored, with the notice
C17_Witness ==
  /\ lastCall.fn = "update_files"
  /\ Cardinality(DetectedChanged) = max_files + 1
  /\ Cardinality(StoredFiles) = max_files
  /\ lastCall.result.notice
  /\ lastCall.result.status = "updated"
  /\ Len(points) >= 2 * max_files

(***************************************************************************)
(* Claims about chunk_python_file                                          *)
(***************************************************************************)
ParsedCall == lastCall.fn = "chunk_python_file" /\ lastCall.content.syntax_ok
ChunkSet == {lastCall.result[k] : k \in 1..Len(lastCall.result)}
StmtIds == 1..Len(lastCall.tree)
StartOf(i) == Lineno(lastCall.tree, lastCall.prologue, i)
EndOf(i) == EndLineno(lastCall.tree, lastCall.prologue, i)

\* the chunks of a kind that start where statement i starts
ChunksAt(i, types) ==
  {c \in ChunkSet : c.chunk_type \in types /\ c.start_line = StartOf(i)}

LinesDisjoint(a, b) == a.end_line < b.start_line \/ b.end_line < a.start_line

\* C18: in a parseable Python file the class chunk of every class covers the
\* header line and the class docstring only, and its lines are disjoint from
\* the lines of every method chunk whose parent_class is that class
C18_ClassChunkDisjointFromItsMethods ==
  ParsedCall =>
    \A i \in StmtIds :
      lastCall.tree[i].kind = "class" =>
        /\ Cardinality(ChunksAt(i, {"class"})) = 1
        /\ \A c \in ChunksAt(i, {"class"}) :
             /\ c.name = lastCall.tree[i].name
             /\ c.end_line = c.start_line + lastCall.tree[i].doc
             /\ \A j \in StmtIds :
                  lastCall.tree[j].parent = i =>
                    \A m \in ChunksAt(j, {"method"}) :
                      m.parent_class = c.name => LinesDisjoint(c, m)

\* a class with a docstring and a method: the class chunk is the header and the
\* docstring line, the method chunk starts on the next line
C18_Witness ==
  /\ ParsedCall
  /\ \E i, j \in StmtIds :
       /\ lastCall.tree[i].kind = "class"
       /\ lastCall.tree[i].doc = 1
       /\ lastCall.tree[j].parent = i
       /\ \E c \in ChunksAt(i, {"class"}), m \in ChunksAt(j, {"method"}) :
            /\ m.parent_class = c.name
            /\ c.end_line = c.start_line + 1
            /\ m.start_line = c.end_line + 1
            /\ m.end_line > m.start_line

\* the definitions of the file, def or async def
IsDefinition(i) == lastCall.tree[i].kind \in {"def", "async"}
\* the definition is a statement of a class body
InClassBody(i) ==
  /\ lastCall.tree[i].parent # 0
  /\ lastCall.tree[lastCall.tree[i].parent].kind = "class"

\* C19: in a parseable Python file every function or method definition, def or
\* async def, at any depth, has exactly one chunk; the chunk is a method with
\* the name of the enclosing class as parent_class when the definition is in a
\* class, and a function otherwise
C19_OneChunkPerDefinition ==
  ParsedCall =>
    /\ \A i \in StmtIds :
         IsDefinition(i) =>
           /\ Cardinality(ChunksAt(i, {"function", "method"})) = 1
           /\ \A c \in ChunksAt(i, {"function", "method"}) :
                /\ c.name = lastCall.tree[i].name
                /\ c.end_line = EndOf(i)
                /\ IF InClassBody(i)
                   THEN /\ c.chunk_type = "method"
                        /\ c.parent_class = lastCall.tree[lastCall.tree[i].parent].name
                   ELSE /\ c.chunk_type = "function"
                        /\ c.parent_class = ""
    /\ Cardinality({k \in 1..Len(lastCall.result) :
                      lastCall.result[k].chunk_type \in {"function", "method"}})
         = Cardinality({i \in StmtIds : IsDefinition(i)})

\* the same for the definitions declared with def alone
PlainDefsHaveOneChunk ==
  ParsedCall =>
    \A i \in StmtIds :
      lastCall.tree[i].kind = "def" =>
        /\ Cardinality(ChunksAt(i, {"function", "method"})) = 1
        /\ \A c \in ChunksAt(i, {"function", "method"}) :
             /\ c.end_line = EndOf(i)
             /\ c.chunk_type = (IF InClassBody(i) THEN "method" ELSE "function")

(***************************************************************************)
(* Claims about QdrantSettings                                             *)
(***************************************************************************)
SettingsCall == lastCall.fn = "QdrantSettings"
\* a field that was given a value, empty or not
IsSet(x) == ~x.is_none

\* C20: constructing QdrantSettings fails whenever local_path is set together
\* with a location or with an api_key, and succeeds when local_path is set
\* alone or is not set
C20_LocalPathExclusive ==
  SettingsCall =>
    /\ (IsSet(lastCall.local_path)
          /\ (IsSet(lastCall.location) \/ IsSet(lastCall.api_key)))
         => ~lastCall.result.ok
    /\ (~IsSet(lastCall.local_path)
          \/ (~IsSet(lastCall.location) /\ ~IsSet(lastCall.api_key)))
         => lastCall.result.ok

\* C20 (amended): constructing QdrantSettings fails exactly when local_path is
\* a non-empty string and location or api_key is not None, an empty string
\* included; otherwise it succeeds and the settings hold the given values
C20_NonEmptyLocalPathExclusive ==
  SettingsCall =>
    /\ ~lastCall.result.ok <=>
         /\ NonEmpty(lastCall.local_path)
         /\ IsSet(lastCall.location) \/ IsSet(lastCall.api_key)
    /\ lastCall.result.ok =>
         /\ lastCall.result.settings.location = lastCall.location
         /\ lastCall.result.settings.api_key = lastCall.api_key
         /\ lastCall.result.settings.local_path = lastCall.local_path
    /\ ~lastCall.result.ok => lastCall.result.error = "ValueError"

\* a local path with an api_key and without location is refused
C20_Witness ==
  /\ SettingsCall
  /\ NonEmpty(lastCall.local_path)
  /\ lastCall.location.is_none
  /\ NonEmpty(lastCall.api_key)
  /\ ~lastCall.result.ok

(***************************************************************************)
(* Claims about the batches of index_codebase                              *)
(***************************************************************************)
\* the points the current index_codebase run has stored
RunPoints == SubSeq(points, pointsAtStart + 1, Len(points))
NoTaskPending == \A k \in 1..Len(results) : results[k] # Pending

\* the chunks of the analysed batch, in the order the store loop meets them
BatchChunks ==
  Flatten([k \in 1..Len(results) |->
             IF results[k] = Pending \/ results[k].skipped THEN << >>
             ELSE results[k].chunks])

\* the first chunk of the batch with the hash
FirstWithHash(h) ==
  BatchChunks[Least({k \in 1..Len(BatchChunks) : BatchChunks[k].hash = h})]

StoredOncePerHash ==
  /\ idxPc = "store" => NoTaskPending
  /\ \A i, j \in 1..Len(RunPoints) :
       i # j => RunPoints[i].metadata.content_hash # RunPoints[j].metadata.content_hash
  /\ idxPc \in {"store", "return", "done"} =>
       \A i \in 1..Len(RunPoints) :
         LET first == FirstWithHash(RunPoints[i].metadata.content_hash)
         IN /\ RunPoints[i].metadata.chunk_type = first.chunk_type
            /\ RunPoints[i].metadata.end_line = first.end_line

\* a step that stores is a step of the store loop, taken when no analysis task
\* of the batch is left, and stores one point
StoresOneAtATime ==
  points' # points =>
    /\ idxPc = "store"
    /\ NoTaskPending
    /\ results' = results
    /\ Len(points') = Len(points) + 1

\* C21: within an index_codebase run the chunks of a batch are stored only
\* after every analysis task of the batch has ended, one at a time, and in
\* whatever order the tasks ran at most one chunk per content hash is stored:
\* of the chunks with one hash, the first
C21_BatchStoredAfterAnalysisOncePerHash ==
  []StoredOncePerHash /\ [][StoresOneAtATime]_vars

\* a run over two files, one of which has two chunks of one hash, has ended:
\* the file_header chunk is stored and the import_block chunk is not
C21_Witness ==
  /\ idxPc = "done"
  /\ Len(files) = 2
  /\ \E f \in 1..Len(results) :
       /\ ~results[f].skipped
       /\ Len(results[f].chunks) = 2
       /\ results[f].chunks[1].hash = results[f].chunks[2].hash
       /\ results[f].chunks[1].chunk_type = "file_header"
       /\ results[f].chunks[2].chunk_type = "import_block"
       /\ \E i \in 1..Len(RunPoints) :
            /\ RunPoints[i].metadata.content_hash = results[f].chunks[1].hash
            /\ RunPoints[i].metadata.chunk_type = "file_header"
  /\ chunk_count = Len(RunPoints)
  /\ Len(BatchChunks) > chunk_count

(***************************************************************************)
(* Claims about the sparse embedder                                        *)
(***************************************************************************)
\* the texts of the last batch that hold the term
BatchDocFreq(term) ==
  Cardinality({k \in 1..Len(sparseLast.tokens) : term \in TermsOf(sparseLast.tokens[k])})

\* doc_count and avg_doc_length are those of the last batch
CountAndLengthOfLastBatch ==
  sparseCalls > 0 =>
    /\ doc_count = Len(sparseLast.texts)
    /\ avg_doc_length.num = Len(Flatten(sparseLast.tokens))
    /\ avg_doc_length.den = Max(Len(sparseLast.texts), 1)

\* C22: after every embed_documents call the corpus statistics are those of
\* that batch alone: doc_count is the batch size, avg_doc_length the mean token
\* count of the batch, and the document frequency of every term is the number
\* of texts of the batch that hold it, so df[term] <= doc_count
C22_StatisticsOfLastBatchAlone ==
  sparseCalls > 0 =>
    /\ CountAndLengthOfLastBatch
    /\ \A term \in DOMAIN df : df[term] <= doc_count
    /\ \A k \in 1..Len(sparseLast.tokens) :
         \A term \in TermsOf(sparseLast.tokens[k]) :
           df[term] = BatchDocFreq(term)
    /\ \A k \in 1..Len(sparseLast.vectors) :
         \A e \in 1..Len(sparseLast.vectors[k]) :
           sparseLast.vectors[k][e].doc_freq
             = BatchDocFreq(sparseLast.vectors[k][e].term)

\* the paths an update_files call detected as changed, in the order of its files
DetectedSeq(call) ==
  LET hit == SelectSeq(call.files,
                       LAMBDA f : /\ IsIndexable(f.path)
                                  /\ RecordedHash(call.before, f.path)
                                       /= ComputeHash(f.content))
  IN [k \in 1..Len(hit) |-> hit[k].path]

\* the changed files of the call beyond the first max_files
DroppedByCap(call) ==
  {DetectedSeq(call)[k] : k \in (max_files + 1)..Len(DetectedSeq(call))}

\* the next update_files call, on the same files
SameFilesCalledAgain ==
  /\ runs' = runs + 1
  /\ lastCall.fn = "update_files"
  /\ lastCall.workspace_name # << >>
  /\ lastCall'.fn = "update_files"
  /\ lastCall'.workspace_name # << >>
  /\ lastCall'.files = lastCall.files

\* C24: when an update_files call detects more than 50 changed files, every
\* changed file beyond the first 50 is detected as changed again by the next
\* update_files call with the same contents
C24_DroppedFilesDetectedAgain ==
  [][SameFilesCalledAgain =>
       \A path \in DroppedByCap(lastCall) :
         \E k \in 1..Len(DetectedSeq(lastCall')) : DetectedSeq(lastCall')[k] = path]_vars

\* every chunk of the file has a point in the collection
ChunksAreStored(file) ==
  LET chunks == ChunkFile(file.content, file.path,
                          AnalyzeFileInMemory(file.path, file.content).language)
  IN \A k \in 1..Len(chunks) :
       \E i \in 1..Len(points) : points[i].metadata.content_hash = chunks[k].hash

\* an index_codebase run has completed after a run on the same files that raised
CompletedAfterFailedRun ==
  /\ idxPc = "done"
  /\ idxReturn.status = "indexed"
  /\ runs >= 2
  /\ ~prevFiles.valid
  /\ prevFiles.files = files

\* C23: when index_codebase aborts with an embedding or storage error, a later
\* index_codebase call on the same server with the same file contents stores
\* the chunks the failed run did not store: once it has completed, the chunks
\* of every supplied file are in the collection
C23_FailedRunHidesNoFile ==
  CompletedAfterFailedRun => \A k \in 1..Len(files) : ChunksAreStored(files[k])

\* the same after a run that follows a completed run or none
CompletedRunCoversFiles ==
  (idxPc = "done" /\ idxReturn.status = "indexed" /\ (runs = 1 \/ prevFiles.valid))
    => \A k \in 1..Len(files) : ChunksAreStored(files[k])

(***************************************************************************)
(* Claims about code chunks of several workspaces                          *)
(***************************************************************************)
\* the workspace a code chunk was indexed under
ChunkWorkspace(point) == Get(point.metadata, "workspace", <<>>)

\* another chunk of the same workspace that the deleted one resembles enough
\* to be its duplicate or its newer version
SameWorkspacePartner(st, id) ==
  \E o \in DOMAIN st \ {id} :
    /\ ChunkWorkspace(st[o]) = ChunkWorkspace(st[id])
    /\ SimilarityAtLeast(st[o].vector.values, st[id].vector.values, TopicThresholdPct)

\* C25: code chunks of different workspaces are isolated in the deduplication
\* and conflict-resolution phases: a chunk that one of these phases deletes
\* resembles another chunk of its own workspace, it is never deleted because
\* of a chunk indexed under another workspace.
C25_WorkspacesIsolated ==
  (lastPhase \in {"dedup", "conflicts"} /\ pc \in {"conflicts", "stale"}) =>
    \A d \in delLog :
      d.reason \in {"duplicate", "superseded_by_newer"}
        => SameWorkspacePartner(cycleStart, d.id)

\* what does hold: a deleted chunk resembles some other chunk of the collection
C25_DeletedResemblesAnother ==
  (lastPhase \in {"dedup", "conflicts"} /\ pc \in {"conflicts", "stale"}) =>
    \A d \in delLog :
      d.reason \in {"duplicate", "superseded_by_newer"}
        => \E o \in DOMAIN cycleStart \ {d.id} :
             SimilarityAtLeast(cycleStart[o].vector.values,
                               cycleStart[d.id].vector.values, TopicThresholdPct)

(***************************************************************************)
(* Claims about what a deletion of the janitor is owed to                  *)
(***************************************************************************)
\* the points deleted with the given reason since the cycle started
DeletedAs(reason) == {d.id : d \in {x \in delLog : x.reason = reason}}

\* k is stored in st and is a near-duplicate of id in the collection before
\* the phase, of the same (category, workspace_name) group, and not older
SurvivingDuplicate(before, st, id, k) ==
  /\ k \in DOMAIN st /\ k # id
  /\ NearDuplicates(before, Lo(id, k), Hi(id, k))
  /\ StoredTs(before, k) >= StoredTs(before, id)

\* C26: every memory the deduplication phase deletes with reason duplicate has
\* a near-duplicate of its (category, workspace_name) group that is still
\* stored when the phase ends and whose timestamp is at least as large.
C26_DeletedHasSurvivingDuplicate ==
  (lastPhase = "dedup" /\ pc = "conflicts") =>
    \A id \in DeletedAs("duplicate") :
      \E k \in DOMAIN snap : SurvivingDuplicate(snap, store, id, k)

\* what does hold: the deleted memory had a near-duplicate of its group, not
\* older, in the collection the phase started from
C26_DeletedHadDuplicate ==
  (lastPhase = "dedup" /\ pc = "conflicts") =>
    \A id \in DeletedAs("duplicate") :
      \E k \in DOMAIN snap : SurvivingDuplicate(snap, snap, id, k)

\* k is stored in st, belongs to the topic of id, is at least 0.75 similar to
\* it and more than one day newer, in the collection before the phase
SurvivingNewerVersion(before, st, id, k) ==
  /\ k \in DOMAIN st /\ k # id
  /\ k \in TopicOf(before, id)
  /\ SimilarityAtLeast(before[id].vector.values, before[k].vector.values, TopicThresholdPct)
  /\ StoredTs(before, k) - StoredTs(before, id) > Day

\* C27: every memory resolve_conflicts deletes with reason superseded_by_newer
\* has a memory of its topic that is still stored when the phase ends, is at
\* least 0.75 similar to it and more than one day newer.
C27_DeletedHasSurvivingNewerVersion ==
  (lastPhase = "conflicts" /\ pc = "stale") =>
    \A id \in DeletedAs("superseded_by_newer") :
      \E k \in DOMAIN snap : SurvivingNewerVersion(snap, store, id, k)

\* the same with the newer version looked for in the collection the phase
\* started from
C27_DeletedHadNewerVersion ==
  (lastPhase = "conflicts" /\ pc = "stale") =>
    \A id \in DeletedAs("superseded_by_newer") :
      \E k \in DOMAIN snap : SurvivingNewerVersion(snap, snap, id, k)

\* the deleted memory had some conflicting memory of its topic: 0.75 similar
\* and more than one day older or newer
C27_DeletedHadConflict ==
  (lastPhase = "conflicts" /\ pc = "stale") =>
    \A id \in DeletedAs("superseded_by_newer") :
      \E k \in TopicOf(snap, id) \ {id} :
        /\ SimilarityAtLeast(snap[id].vector.values, snap[k].vector.values, TopicThresholdPct)
        /\ Abs(StoredTs(snap, k) - StoredTs(snap, id)) > Day

\* C28: a completed index_codebase run reports an indexed-file count equal to
\* the number of files it was given, whatever the mix of changed and
\* unchanged files.
C28_EveryFileCountedOnce ==
  (idxPc = "done" /\ idxReturn.status = "indexed") =>
    idxReturn.indexed = Len(files)

\* what does hold: the count is the number of unchanged files plus one for
\* each batch
C28_CountsSkippedAndBatches ==
  (idxPc = "done" /\ idxReturn.status = "indexed") =>
    idxReturn.indexed =
      Cardinality({i \in 1..Len(results) : results[i].skipped})
        + (Len(files) + BatchSize - 1) \div BatchSize

(***************************************************************************)
(* Claims about the server's tools                                         *)
(***************************************************************************)
\* C29: in read-only mode no registered tool writes to the vector store: no
\* step of a tool call changes the stored points or the collection.
C29_ReadOnlyWritesNothing ==
  [][qdrant_settings.read_only => (points' = points /\ collExists' = collExists)]_vars

\* what does hold: update_files is not callable in read-only mode
C29_NoUpdateFilesWhenReadOnly ==
  qdrant_settings.read_only => lastCall = NoLibCall

\* the content hashes of the chunks of file k of the finished run
CurrentHashes(k) == {results[k].chunks[c].hash : c \in 1..Len(results[k].chunks)}

\* C30: re-indexing replaces: when a run has re-indexed a file whose content
\* changed, every stored chunk of that workspace and file path is a chunk of
\* the file's current content, none is left from the previous content.
C30_ReindexReplaces ==
  (idxPc = "done" /\ idxReturn.status = "indexed") =>
    \A k \in 1..Len(results) :
      ~results[k].skipped =>
        \A p \in 1..Len(points) :
          points[p].metadata.file_path = files[k].path
            => points[p].metadata.content_hash \in CurrentHashes(k)

\* what does hold: a run only adds points, every point stored before it is
\* still there afterwards
C30_RunOnlyAppends ==
  [][Len(points') >= Len(points) /\ SubSeq(points', 1, Len(points)) = points]_vars

====
